---- MODULE Spec2Model ----
(***************************************************************************)
(* Host-integration layer of the hazelnut daemon: autostart registration   *)
(* (src/src/autostart.rs), update checking, version comparison and update  *)
(* running (src/src/lib.rs).                                               *)
(*                                                                         *)
(* The program keeps no state of its own.  Its state is the file system    *)
(* (descriptor files and their parent directories) and the position of     *)
(* the calls in progress; everything else is an answer of the host (probe  *)
(* exit status, `which` output, I/O outcome), which a step receives as an  *)
(* input.                                                                  *)
(***************************************************************************)
EXTENDS Integers, Sequences, FiniteSets, TLC

VARIABLES
    platform,   \* build target: "macos", "linux" or "other" (cfg(target_os))
    homeDir,    \* dirs::home_dir(): a path or None
    configDir,  \* dirs::config_dir(): a path or None
    fs,         \* descriptor path -> file content or NoFile
    dirs,       \* the parent directories that exist
    last,       \* the registrar call that returned last: answers got, result, effects
    upd,        \* the run_update call: origin, position, commands launched, result
    chk,        \* the check_for_updates call in progress or completed
    ver,        \* the last version comparison: the two strings and the answer
    fmt,        \* the last format_uptime call: the seconds and the text
    upt,        \* the last read_process_uptime call: what it read, what it returned
    proc,       \* the processes of the host and the last process_is_running call
    det,        \* the last detect_package_manager call
    loc,        \* the last get_daemon_binary_path call: the host it saw, its steps
    calls       \* the registrar call each caller is in: position, locals, effects

vars == <<platform, homeDir, configDir, fs, dirs, last, upd, chk, ver,
          fmt, upt, proc, det, loc, calls>>

queryVars == <<fmt, upt, proc, det, loc, calls>>

hostVars == <<platform, homeDir, configDir>>

registrarVars == <<platform, homeDir, configDir, fs, dirs, last>>

None == <<"None">>
NoFile == <<"NoFile">>

----------------------------------------------------------------------------
(* Paths are sequences of components; an absolute path starts with "/".    *)

Join(base, rel) == base \o rel

Parent(p) == SubSeq(p, 1, Len(p) - 1)

IsAbsolute(p) == Len(p) > 0 /\ p[1] = "/"

HomePath == <<"/", "home", "user">>

ConfigPath == <<"/", "home", "user", ".config">>

PlistRel == <<"Library", "LaunchAgents", "me.ricardodantas.hazelnutd.plist">>

ServiceRel == <<".config", "systemd", "user", "hazelnutd.service">>

DesktopRel == <<"autostart", "hazelnutd.desktop">>

PlistPath == Join(HomePath, PlistRel)

ServicePath == Join(HomePath, ServiceRel)

DesktopPath == Join(ConfigPath, DesktopRel)

DescriptorPaths == {PlistPath, ServicePath, DesktopPath}

ParentDirs == {Parent(p) : p \in DescriptorPaths}

----------------------------------------------------------------------------
(* get_autostart_path: the descriptor path of the platform, or None.       *)
(* sysd is the answer of is_systemd_available(), evaluated only on linux.  *)

(* a get_autostart_path that falls back to the desktop-autostart entry on *)
(* every platform that is not macos                                        *)
get_autostart_path_fallback(plat, home, config, sysd) ==
    CASE plat = "macos" ->
            IF home = None THEN None ELSE Join(home, PlistRel)
      [] plat = "linux" /\ sysd ->
            IF home = None THEN None ELSE Join(home, ServiceRel)
      [] OTHER -> Join(ConfigPath, DesktopRel)

get_autostart_path(plat, home, config, sysd) ==
    CASE plat = "macos" ->
            IF home = None THEN None ELSE Join(home, PlistRel)
      [] plat = "linux" ->
            IF sysd
            THEN IF home = None THEN None ELSE Join(home, ServiceRel)
            ELSE IF config = None THEN None ELSE Join(config, DesktopRel)
      [] OTHER -> None

(* The external commands get_autostart_path launches.                      *)
PathProbeTrace(plat) ==
    IF plat = "linux" THEN <<"systemctl --user --version">> ELSE <<>>

(* The answers the probe can give on a platform.                           *)
ProbeAnswers(plat) == IF plat = "linux" THEN BOOLEAN ELSE {FALSE}

(* an existence check that says yes whatever is there *)
path_exists_always(files, p) == TRUE

(* Path::exists *)
path_exists(files, p) == files[p] # NoFile

----------------------------------------------------------------------------
(* get_daemon_binary_path: `which hazelnutd`, then the common locations,   *)
(* then ~/.cargo/bin.  A locator environment is                            *)
(*   [which  |-> "nolaunch" | "nonzero" | "zero",  the command's fate      *)
(*    stdout |-> the text `which` printed, a sequence of tokens,           *)
(*    common |-> the common locations that exist,                          *)
(*    cargo  |-> whether ~/.cargo/bin/hazelnutd exists].                   *)

NotFound == <<"NotFound">>

(* char::is_whitespace, the Unicode White_Space property: tab, line feed,  *)
(* vertical tab (U+000B), form feed, carriage return, blank, next line     *)
(* (U+0085), no-break space (U+00A0), ogham space mark (U+1680).  The      *)
(* White_Space characters from U+2000 on cannot be written in a string     *)
(* here; the texts of the model do not contain them.                       *)
Whitespace == {"\t", "\n", "", "\f", "\r", " ", "", " ", " "}

RECURSIVE TrimStart(_)
TrimStart(s) ==
    IF s # <<>> /\ Head(s) \in Whitespace THEN TrimStart(Tail(s)) ELSE s

RECURSIVE TrimEnd(_)
TrimEnd(s) ==
    IF s # <<>> /\ s[Len(s)] \in Whitespace
    THEN TrimEnd(SubSeq(s, 1, Len(s) - 1)) ELSE s

(* str::trim *)
Trim(s) == TrimEnd(TrimStart(s))

common_paths ==
    << <<"/", "usr", "local", "bin", "hazelnutd">>,
       <<"/", "opt", "homebrew", "bin", "hazelnutd">>,
       <<"/", "usr", "bin", "hazelnutd">> >>

CargoRel == <<".cargo", "bin", "hazelnutd">>

(* the first of common_paths, from index i on, that exists *)
RECURSIVE FirstCommon(_, _)
FirstCommon(existing, i) ==
    IF i > Len(common_paths) THEN None
    ELSE IF common_paths[i] \in existing THEN common_paths[i]
    ELSE FirstCommon(existing, i + 1)

(* the sources get_daemon_binary_path consults, in order: the command, the *)
(* common locations up to the first that exists, the cargo directory       *)
RECURSIVE CommonProbes(_, _)
CommonProbes(existing, i) ==
    IF i > Len(common_paths) THEN <<>>
    ELSE IF common_paths[i] \in existing THEN << <<"exists", common_paths[i]>> >>
    ELSE << <<"exists", common_paths[i]>> >> \o CommonProbes(existing, i + 1)

LocatorTrace(env, home) ==
    << <<"which", <<"hazelnutd">> >> >>
    \o (IF env.which = "zero" /\ Trim(env.stdout) # <<>> THEN <<>>
        ELSE CommonProbes(env.common, 1)
             \o (IF FirstCommon(env.common, 1) # None \/ home = None THEN <<>>
                 ELSE << <<"exists", Join(home, CargoRel)>> >>))

(* a locator that looks into the cargo directory before the common         *)
(* locations                                                               *)
get_daemon_binary_path_cargo_first(env, home) ==
    LET path == Trim(env.stdout)
        common == FirstCommon(env.common, 1)
    IN  IF env.which = "zero" /\ path # <<>> THEN path
        ELSE IF home # None /\ env.cargo THEN Join(home, CargoRel)
        ELSE IF common # None THEN common
        ELSE NotFound

get_daemon_binary_path(env, home) ==
    LET path == Trim(env.stdout)
        common == FirstCommon(env.common, 1)
    IN  IF env.which = "zero" /\ path # <<>> THEN path
        ELSE IF common # None THEN common
        ELSE IF home # None /\ env.cargo THEN Join(home, CargoRel)
        ELSE NotFound

----------------------------------------------------------------------------
(* get_autostart_content: the descriptor text, a sequence of text pieces   *)
(* with the displayed binary path in the middle.  Its two child processes, *)
(* `which` and the probe, are the steps EnableLocate and                   *)
(* EnableContentProbe.                                                     *)

(* Path::display: the components with the separator between them *)
RECURSIVE DisplayFrom(_, _)
DisplayFrom(p, i) ==
    IF i > Len(p) THEN <<>>
    ELSE IF i = Len(p) \/ p[i] = "/" THEN <<p[i]>> \o DisplayFrom(p, i + 1)
    ELSE <<p[i], "/">> \o DisplayFrom(p, i + 1)

Display(p) == DisplayFrom(p, 1)

PlistHead ==
    "<?xml version=\"1.0\" encoding=\"UTF-8\"?>\n<!DOCTYPE plist PUBLIC \"-//Apple//DTD PLIST 1.0//EN\" \"http://www.apple.com/DTDs/PropertyList-1.0.dtd\">\n<plist version=\"1.0\">\n<dict>\n    <key>Label</key>\n    <string>me.ricardodantas.hazelnutd</string>\n    <key>ProgramArguments</key>\n    <array>\n        <string>"

PlistTail ==
    "</string>\n        <string>run</string>\n    </array>\n    <key>RunAtLoad</key>\n    <true/>\n    <key>KeepAlive</key>\n    <false/>\n    <key>StandardOutPath</key>\n    <string>/tmp/hazelnutd.stdout.log</string>\n    <key>StandardErrorPath</key>\n    <string>/tmp/hazelnutd.stderr.log</string>\n</dict>\n</plist>\n"

UnitHead ==
    "[Unit]\nDescription=Hazelnut File Organizer Daemon\nAfter=default.target\n\n[Service]\nType=simple\nExecStart="

UnitTail ==
    " run\nRestart=on-failure\nRestartSec=5\n\n[Install]\nWantedBy=default.target\n"

DesktopHead ==
    "[Desktop Entry]\nType=Application\nName=Hazelnut Daemon\nExec="

DesktopTail ==
    " run\nHidden=false\nNoDisplay=true\nX-GNOME-Autostart-enabled=true\n"

Unsupported == <<"Unsupported">>

(* the template for a resolved binary path; sysd is the answer of the      *)
(* second is_systemd_available() evaluation                                *)
render_content(plat, binary_path, sysd) ==
    CASE plat = "macos" -> <<PlistHead>> \o Display(binary_path) \o <<PlistTail>>
      [] plat = "linux" ->
            IF sysd
            THEN <<UnitHead>> \o Display(binary_path) \o <<UnitTail>>
            ELSE <<DesktopHead>> \o Display(binary_path) \o <<DesktopTail>>
      [] OTHER -> Unsupported

----------------------------------------------------------------------------
(* The registrar calls.  autostart.rs takes no lock: a call is a sequence  *)
(* of system calls and child processes, and between two of them the file   *)
(* system is what every other process sees and may change.  calls[c] is    *)
(* the call caller c is in: its position pc, its local variables, the      *)
(* host's answers it got and the effects it attempted, in order.  fs0 and  *)
(* dirs0 are the files and directories the call found when it was made.    *)

IoError == <<"IoError">>

Ok == <<"Ok">>

(* the value a call returns inside Ok: none, or a bool *)
Nothing == <<>>

Value(b) == <<b>>

Callers == {"a", "b"}

DaemonReload == "systemctl --user daemon-reload"

(* what `systemctl --user daemon-reload` can do: not start, exit with 0,   *)
(* exit with another status                                                *)
ReloadOutcomes == {"nolaunch", "exit0", "exit1"}

(* saw: what disable()'s path.exists() returned; existed: whether the      *)
(* descriptor was there when disable() looked its path up; written: the    *)
(* bytes of content the file has taken                                     *)
IdleCall ==
    [op |-> "none", pc |-> "idle", fs0 |-> <<>>, dirs0 |-> {}, res |-> Ok,
     ret |-> Nothing, was |-> FALSE, probes |-> <<>>, path |-> None,
     bin |-> None, content |-> <<>>, written |-> 0, trace |-> <<>>,
     fault |-> "none", reload |-> "none", saw |-> FALSE, existed |-> FALSE]

CallsIdle == [c \in Callers |-> IdleCall]

(* what a returned call hands to its caller, and what it did *)
CallOf(call) ==
    [op |-> call.op, res |-> call.res, ret |-> call.ret, was |-> call.was,
     probes |-> call.probes, path |-> call.path, bin |-> call.bin,
     trace |-> call.trace, fault |-> call.fault, reload |-> call.reload]

NoCall == CallOf(IdleCall)

(* toggle() that returns the state it read, not the one it left *)
toggle_returns_old(was) == was

(* the bool toggle() returns: Ok(false) after disable()?, Ok(true) after   *)
(* enable()?                                                               *)
toggle(was) == ~was

(* the call has its result: `?` passes an error on, toggle() wraps its     *)
(* bool in Ok                                                              *)
Finish(call, res) ==
    [call EXCEPT !.pc = "done", !.res = res,
                 !.ret = IF call.op = "toggle" /\ res = Ok
                         THEN Value(toggle(call.was)) ELSE Nothing]

Fail(call, fault) == [Finish(call, IoError) EXCEPT !.fault = fault]

(* is_enabled() has its answer: it is the result of an is_enabled() call   *)
(* and the condition of toggle()'s if                                      *)
IsEnabledReturns(call, b) ==
    IF call.op = "toggle"
    THEN [call EXCEPT !.was = b, !.pc = "t_branch"]
    ELSE [call EXCEPT !.pc = "done", !.ret = Value(b)]

(* the answer of a probe as the call records it *)
Probed(plat, p) == IF plat = "linux" THEN <<p>> ELSE <<>>

(* let _ = Command::new("systemctl").args(["--user", "daemon-reload"])     *)
(* .output(); Ok(()): the outcome rl is dropped                            *)
Reloaded(call, rl) ==
    Finish([call EXCEPT !.reload = rl, !.trace = @ \o <<DaemonReload>>], Ok)

(* the reload is compiled in on linux only *)
BeforeReload(call, plat, pc) ==
    IF plat = "linux" THEN [call EXCEPT !.pc = pc] ELSE Finish(call, Ok)

----------------------------------------------------------------------------
(* Files.  The content of a file is a sequence of text pieces, its text    *)
(* their concatenation.                                                    *)

RECURSIVE TextLen(_)
TextLen(pieces) ==
    IF pieces = <<>> THEN 0 ELSE Len(Head(pieces)) + TextLen(Tail(pieces))

RECURSIVE Text(_)
Text(pieces) ==
    IF pieces = <<>> THEN "" ELSE Head(pieces) \o Text(Tail(pieces))

(* the first n bytes of a content: its pieces as long as they fit, then    *)
(* the piece the cut falls into, cut                                       *)
RECURSIVE Prefix(_, _)
Prefix(pieces, n) ==
    IF n <= 0 \/ pieces = <<>> THEN <<>>
    ELSE IF Len(Head(pieces)) <= n
    THEN <<Head(pieces)>> \o Prefix(Tail(pieces), n - Len(Head(pieces)))
    ELSE <<SubSeq(Head(pieces), 1, n)>>

(* the bytes a short write(2) takes *)
ShortWrite == 10

(* what one write(2) of the rest of the content can take: nothing (it      *)
(* failed, or returned 0), all of it, or, the first time, a few bytes      *)
Takes(written, total) ==
    {0, total - written}
    \cup (IF written = 0 /\ ShortWrite < total THEN {ShortWrite} ELSE {})

(* a write that trusts the first write(2) to have taken everything *)
write_once(written, taken, total) ==
    IF taken = 0 THEN "fail" ELSE "done"

(* fs::write's write_all after a write(2) took `taken` bytes: an error or  *)
(* a count of 0 fails it, a short count makes it write the rest            *)
write_all(written, taken, total) ==
    IF taken = 0 THEN "fail"
    ELSE IF written + taken < total THEN "more"
    ELSE "done"

(* fs::write's File::create: open(O_WRONLY | O_CREAT | O_TRUNC) makes the  *)
(* file or empties it                                                      *)
file_create(files, path, ok) ==
    IF ok
    THEN [files |-> [files EXCEPT ![path] = <<>>], fault |-> "none"]
    ELSE [files |-> files, fault |-> "create"]

(* the file behind the open descriptor after it took the content up to     *)
(* byte upto; a file that was unlinked meanwhile takes the bytes and is    *)
(* not to be seen at its path                                              *)
write_at(files, path, content, upto) ==
    IF files[path] = NoFile THEN files
    ELSE [files EXCEPT ![path] = Prefix(content, upto)]

(* a removal that reports success and leaves the file *)
remove_file_keeps(files, path, rm) ==
    [files |-> files, fault |-> "none"]

(* fs::remove_file(&path): unlink fails with NotFound on a missing file;   *)
(* rm tells whether the unlink of an existing file succeeds                *)
remove_file(files, path, rm) ==
    IF files[path] = NoFile
    THEN [files |-> files, fault |-> "not_found"]
    ELSE IF ~rm
    THEN [files |-> files, fault |-> "remove_file"]
    ELSE [files |-> [files EXCEPT ![path] = NoFile], fault |-> "none"]

----------------------------------------------------------------------------
(* The host's answers the registrar is run against.                        *)

WhichBin == <<"/", "home", "user", "bin", "hazelnutd">>

(* what `which` prints for an entry "." of PATH *)
RelativeBin == <<".", "hazelnutd">>

LocEnv(w, out, common, cargo) ==
    [which |-> w, stdout |-> out, common |-> common, cargo |-> cargo]

RegistrarEnvs ==
    { LocEnv("nolaunch", <<>>, {}, FALSE),
      LocEnv("zero", WhichBin \o <<"\n">>, {common_paths[3]}, TRUE),
      LocEnv("nonzero", <<>>, {common_paths[3]}, TRUE),
      LocEnv("zero", RelativeBin \o <<"\n">>, {}, FALSE) }

Platforms == {"macos", "linux", "other"}

InitRegistrar ==
    /\ platform \in Platforms
    /\ homeDir \in {None, HomePath}
    /\ configDir = (IF homeDir = None THEN None ELSE ConfigPath)
    /\ fs = [p \in DescriptorPaths |-> NoFile]
    /\ dirs \in {{}, ParentDirs}
    /\ last = NoCall

(* the descriptor that enable() leaves at path p *)
DescriptorAt(p) ==
    CASE p = PlistPath -> render_content("macos", WhichBin, FALSE)
      [] p = ServicePath -> render_content("linux", WhichBin, TRUE)
      [] OTHER -> render_content("linux", WhichBin, FALSE)

(* the descriptor paths enable() writes to on a platform *)
PlatformPaths(plat) ==
    CASE plat = "macos" -> {PlistPath}
      [] plat = "linux" -> {ServicePath, DesktopPath}
      [] OTHER -> {}

InitRace ==
    /\ platform \in Platforms
    /\ homeDir = HomePath
    /\ configDir = ConfigPath
    /\ \E present \in SUBSET PlatformPaths(platform) :
         /\ fs = [p \in DescriptorPaths |->
                    IF p \in present THEN DescriptorAt(p) ELSE NoFile]
         /\ dirs \in {{Parent(p) : p \in present}, ParentDirs}
    /\ last = NoCall

----------------------------------------------------------------------------
(* The steps of the calls.  A caller that is in no call makes one; the     *)
(* call then takes its steps; Return hands its result over.                *)

elsewhere == <<upd, chk, ver, fmt, upt, proc, det, loc>>

Begin(op, pc) ==
    [IdleCall EXCEPT !.op = op, !.pc = pc, !.fs0 = fs, !.dirs0 = dirs]

CallIsEnabled(c) ==
    /\ calls[c].pc = "idle"
    /\ calls' = [calls EXCEPT ![c] = Begin("is_enabled", "i_path")]
    /\ UNCHANGED <<registrarVars, elsewhere>>

CallEnable(c) ==
    /\ calls[c].pc = "idle"
    /\ calls' = [calls EXCEPT ![c] = Begin("enable", "e_path")]
    /\ UNCHANGED <<registrarVars, elsewhere>>

CallDisable(c) ==
    /\ calls[c].pc = "idle"
    /\ calls' = [calls EXCEPT ![c] = Begin("disable", "d_path")]
    /\ UNCHANGED <<registrarVars, elsewhere>>

(* toggle() starts with is_enabled() *)
CallToggle(c) ==
    /\ calls[c].pc = "idle"
    /\ calls' = [calls EXCEPT ![c] = Begin("toggle", "i_path")]
    /\ UNCHANGED <<registrarVars, elsewhere>>

(* is_enabled: get_autostart_path(), on linux with its probe; without a    *)
(* path the answer is false                                                *)
IsEnabledPath(c) ==
    /\ calls[c].pc = "i_path"
    /\ \E p \in ProbeAnswers(platform) :
         LET path == get_autostart_path(platform, homeDir, configDir, p)
             call == [calls[c] EXCEPT !.probes = @ \o Probed(platform, p),
                                      !.trace = @ \o PathProbeTrace(platform),
                                      !.path = path]
         IN  calls' = [calls EXCEPT ![c] =
                 IF path = None THEN IsEnabledReturns(call, FALSE)
                 ELSE [call EXCEPT !.pc = "i_exists"]]
    /\ UNCHANGED <<registrarVars, elsewhere>>

(* .map(|p| p.exists()) *)
IsEnabledExists(c) ==
    /\ calls[c].pc = "i_exists"
    /\ calls' = [calls EXCEPT ![c] =
                    IsEnabledReturns(@, path_exists(fs, @.path))]
    /\ UNCHANGED <<registrarVars, elsewhere>>

(* if is_enabled() { disable()?; ... } else { enable()?; ... } *)
ToggleBranch(c) ==
    /\ calls[c].pc = "t_branch"
    /\ calls' = [calls EXCEPT ![c] =
                    [@ EXCEPT !.pc = IF calls[c].was THEN "d_path" ELSE "e_path"]]
    /\ UNCHANGED <<registrarVars, elsewhere>>

(* let path = get_autostart_path().ok_or_else(...)?  *)
EnablePath(c) ==
    /\ calls[c].pc = "e_path"
    /\ \E p1 \in ProbeAnswers(platform) :
         LET path == get_autostart_path(platform, homeDir, configDir, p1)
             call == [calls[c] EXCEPT !.probes = @ \o Probed(platform, p1),
                                      !.trace = @ \o PathProbeTrace(platform),
                                      !.path = path]
         IN  calls' = [calls EXCEPT ![c] =
                 IF path = None THEN Finish(call, Unsupported)
                 ELSE [call EXCEPT !.pc = "e_mkdir"]]
    /\ UNCHANGED <<registrarVars, elsewhere>>

(* fs::create_dir_all(parent)?: it succeeds on a directory that exists *)
EnableCreateDir(c) ==
    /\ calls[c].pc = "e_mkdir"
    /\ LET parent == Parent(calls[c].path)
           call == [calls[c] EXCEPT !.trace = @ \o <<"create_dir_all">>]
       IN  \E mk \in (IF parent \in dirs THEN {TRUE} ELSE BOOLEAN) :
             IF mk
             THEN /\ dirs' = dirs \cup {parent}
                  /\ calls' = [calls EXCEPT ![c] = [call EXCEPT !.pc = "e_locate"]]
             ELSE /\ dirs' = dirs
                  /\ calls' = [calls EXCEPT ![c] = Fail(call, "create_dir_all")]
    /\ UNCHANGED <<platform, homeDir, configDir, fs, last, elsewhere>>

(* get_autostart_content: let binary_path = get_daemon_binary_path()?; on  *)
(* macos the plist is formatted right away                                 *)
EnableLocate(c) ==
    /\ calls[c].pc = "e_locate"
    /\ \E env \in RegistrarEnvs :
         LET bin == get_daemon_binary_path(env, homeDir)
             call == [calls[c] EXCEPT !.trace = @ \o <<"which hazelnutd">>,
                                      !.bin = bin]
         IN  calls' = [calls EXCEPT ![c] =
                 IF bin = NotFound THEN Finish(call, NotFound)
                 ELSE IF platform = "linux" THEN [call EXCEPT !.pc = "e_probe"]
                 ELSE [call EXCEPT !.pc = "e_create",
                                   !.content = render_content(platform, bin, FALSE)]]
    /\ UNCHANGED <<registrarVars, elsewhere>>

(* get_autostart_content on linux: if is_systemd_available() picks the     *)
(* template                                                                *)
EnableContentProbe(c) ==
    /\ calls[c].pc = "e_probe"
    /\ \E p2 \in ProbeAnswers(platform) :
         calls' = [calls EXCEPT ![c] =
             [@ EXCEPT !.probes = @ \o Probed(platform, p2),
                       !.trace = @ \o PathProbeTrace(platform),
                       !.content = render_content(platform, calls[c].bin, p2),
                       !.pc = "e_create"]]
    /\ UNCHANGED <<registrarVars, elsewhere>>

(* fs::write(&path, content)?: File::create *)
EnableCreate(c) ==
    /\ calls[c].pc = "e_create"
    /\ \E ok \in BOOLEAN :
         LET r == file_create(fs, calls[c].path, ok)
             call == [calls[c] EXCEPT !.trace = @ \o <<"write">>]
         IN  /\ fs' = r.files
             /\ calls' = [calls EXCEPT ![c] =
                    IF r.fault # "none" THEN Fail(call, r.fault)
                    ELSE [call EXCEPT !.pc = "e_write"]]
    /\ UNCHANGED <<platform, homeDir, configDir, dirs, last, elsewhere>>

(* fs::write(&path, content)?: one write(2) of write_all *)
EnableWrite(c) ==
    /\ calls[c].pc = "e_write"
    /\ LET call == calls[c]
           total == TextLen(call.content)
       IN  \E taken \in Takes(call.written, total) :
             LET next == write_all(call.written, taken, total)
                 upto == call.written + taken
             IN  /\ fs' = write_at(fs, call.path, call.content, upto)
                 /\ calls' = [calls EXCEPT ![c] =
                        CASE next = "fail" -> Fail(call, "write")
                          [] next = "more" -> [call EXCEPT !.written = upto]
                          [] OTHER ->
                               BeforeReload([call EXCEPT !.written = upto],
                                            platform, "e_reload")]
    /\ UNCHANGED <<platform, homeDir, configDir, dirs, last, elsewhere>>

(* enable(): the reload, and Ok(()) *)
EnableReload(c) ==
    /\ calls[c].pc = "e_reload"
    /\ \E rl \in ReloadOutcomes :
         calls' = [calls EXCEPT ![c] = Reloaded(@, rl)]
    /\ UNCHANGED <<registrarVars, elsewhere>>

(* let path = get_autostart_path().ok_or_else(...)?  *)
DisablePath(c) ==
    /\ calls[c].pc = "d_path"
    /\ \E p1 \in ProbeAnswers(platform) :
         LET path == get_autostart_path(platform, homeDir, configDir, p1)
             call == [calls[c] EXCEPT !.probes = @ \o Probed(platform, p1),
                                      !.trace = @ \o PathProbeTrace(platform),
                                      !.path = path]
         IN  calls' = [calls EXCEPT ![c] =
                 IF path = None THEN Finish(call, Unsupported)
                 ELSE [call EXCEPT !.pc = "d_exists",
                                   !.existed = path_exists(fs, path)]]
    /\ UNCHANGED <<registrarVars, elsewhere>>

(* if path.exists() *)
DisableExists(c) ==
    /\ calls[c].pc = "d_exists"
    /\ calls' = [calls EXCEPT ![c] =
           IF path_exists(fs, @.path)
           THEN [@ EXCEPT !.pc = "d_remove", !.saw = TRUE]
           ELSE BeforeReload(@, platform, "d_reload")]
    /\ UNCHANGED <<registrarVars, elsewhere>>

(* fs::remove_file(&path)? *)
DisableRemoveFile(c) ==
    /\ calls[c].pc = "d_remove"
    /\ \E rm \in BOOLEAN :
         LET r == remove_file(fs, calls[c].path, rm)
             call == [calls[c] EXCEPT !.trace = @ \o <<"remove_file">>]
         IN  /\ fs' = r.files
             /\ calls' = [calls EXCEPT ![c] =
                    IF r.fault # "none" THEN Fail(call, r.fault)
                    ELSE BeforeReload(call, platform, "d_reload")]
    /\ UNCHANGED <<platform, homeDir, configDir, dirs, last, elsewhere>>

(* disable(): the reload, and Ok(()) *)
DisableReload(c) ==
    /\ calls[c].pc = "d_reload"
    /\ \E rl \in ReloadOutcomes :
         calls' = [calls EXCEPT ![c] = Reloaded(@, rl)]
    /\ UNCHANGED <<registrarVars, elsewhere>>

(* the call returns to its caller *)
Return(c) ==
    /\ calls[c].pc = "done"
    /\ last' = CallOf(calls[c])
    /\ calls' = [calls EXCEPT ![c] = IdleCall]
    /\ UNCHANGED <<platform, homeDir, configDir, fs, dirs, elsewhere>>

----------------------------------------------------------------------------
(* run_update: drive the package manager that installed the program.       *)
(* The call blocks in one child process after the other; a command either  *)
(* fails to launch or ends with a status.  upd is the call: the origin pm  *)
(* it got, its position pc (the command it is about to launch), the        *)
(* commands launched so far with their fates, and its result.              *)

CmdOutcomes == {"nolaunch", "exit0", "exit1", "exit2", "signal"}

(* ExitStatus::success() *)
Success(o) == o = "exit0"

Cargo == [kind |-> "Cargo", formula |-> ""]

Homebrew(f) == [kind |-> "Homebrew", formula |-> f]

PackageManagers == {Cargo, Homebrew("hazelnut"), Homebrew("ricardodantas/tap/hazelnut")}

Cmd(argv, o) == [argv |-> argv, out |-> o]

Err(text, detail) == <<"Err", text, detail>>

(* the result of the last command of a chain: lib.rs 224-226, 253-255 *)
CommandResult(o, program) ==
    IF Success(o) THEN Ok
    ELSE IF o = "nolaunch" THEN Err("Failed to run " \o program \o ": ", o)
    ELSE Err("Update failed with status: ", o)

Update(pm, pc, log, result) ==
    [pm |-> pm, pc |-> pc, log |-> log, result |-> result]

(* the command line launched at a position *)
Argv(pm, pc) ==
    CASE pc = "cargo_install" -> <<"cargo", "install", "hazelnut">>
      [] pc = "brew_update" -> <<"brew", "update">>
      [] pc = "brew_upgrade" -> <<"brew", "upgrade", pm.formula>>
      [] pc = "brew_reinstall" -> <<"brew", "reinstall", pm.formula>>

(* where the call is, and with what result, once its command is through *)
Then(pc, result) == [pc |-> pc, result |-> result]

(* a run_update that gives up when the catalog refresh fails *)
run_update_refresh_required(pc, o) ==
    CASE pc = "cargo_install" -> Then("done", CommandResult(o, "cargo"))
      [] pc = "brew_update" ->
            IF Success(o) THEN Then("brew_upgrade", Ok)
            ELSE Then("done", CommandResult(o, "brew"))
      [] pc = "brew_upgrade" ->
            IF Success(o) THEN Then("done", Ok)
            ELSE IF o = "nolaunch" THEN Then("done", Err("Failed to run brew: ", o))
            ELSE Then("brew_reinstall", Ok)
      [] pc = "brew_reinstall" -> Then("done", CommandResult(o, "brew"))

(* the match on the status of the command launched at pc: the result of    *)
(* brew update is dropped (let _ =), brew upgrade returns Ok(()) on        *)
(* success, goes on to brew reinstall on any other status (Ok(_)) and      *)
(* fails when it did not launch                                            *)
run_update(pc, o) ==
    CASE pc = "cargo_install" -> Then("done", CommandResult(o, "cargo"))
      [] pc = "brew_update" -> Then("brew_upgrade", Ok)
      [] pc = "brew_upgrade" ->
            IF Success(o) THEN Then("done", Ok)
            ELSE IF o = "nolaunch" THEN Then("done", Err("Failed to run brew: ", o))
            ELSE Then("brew_reinstall", Ok)
      [] pc = "brew_reinstall" -> Then("done", CommandResult(o, "brew"))

NoUpdate == Update(Cargo, "idle", <<>>, Ok)

(* run_update(pm): match pm *)
RunUpdate ==
    /\ upd.pc = "idle"
    /\ \E pm \in PackageManagers :
          upd' = Update(pm, IF pm.kind = "Cargo" THEN "cargo_install"
                            ELSE "brew_update", <<>>, Ok)
    /\ UNCHANGED <<registrarVars, chk, ver, queryVars>>

(* Command::new(..).status() at position pc: the child is launched, the    *)
(* call waits for it, and matches on what it got                           *)
Launch(pc) ==
    /\ upd.pc = pc
    /\ \E o \in CmdOutcomes :
          LET then == run_update(pc, o)
          IN  upd' = [upd EXCEPT !.log = @ \o <<Cmd(Argv(upd.pm, pc), o)>>,
                                 !.pc = then.pc, !.result = then.result]
    /\ UNCHANGED <<registrarVars, chk, ver, queryVars>>

CargoInstall == Launch("cargo_install")

BrewUpdate == Launch("brew_update")

BrewUpgrade == Launch("brew_upgrade")

BrewReinstall == Launch("brew_reinstall")

(* the caller has the result; the next update is a new call *)
RunUpdateReturn ==
    /\ upd.pc = "done"
    /\ upd' = NoUpdate
    /\ UNCHANGED <<registrarVars, chk, ver, queryVars>>

----------------------------------------------------------------------------
(* version_is_newer.  A version string is a sequence of characters.        *)

Digits == <<"0", "1", "2", "3", "4", "5", "6", "7", "8", "9">>

IsDigit(c) == \E d \in 1..10 : Digits[d] = c

DigitVal(c) == (CHOOSE d \in 1..10 : Digits[d] = c) - 1

(* A u32 is kept as <<hi, lo>> with value hi * Limb + lo, since the       *)
(* checker's integers are narrower than 32 unsigned bits.                  *)
Limb == 100000

U32MaxHi == 42949

U32MaxLo == 67295

Zero32 == <<0, 0>>

Gt32(a, b) == a[1] > b[1] \/ (a[1] = b[1] /\ a[2] > b[2])

(* acc * 10 + d *)
Shift32(acc, d) ==
    <<acc[1] * 10 + ((acc[2] * 10 + d) \div Limb), (acc[2] * 10 + d) % Limb>>

Fits32(n) == ~Gt32(n, <<U32MaxHi, U32MaxLo>>)

(* str::split(sep): the pieces between separators, empty pieces included;  *)
(* acc is the piece being read                                             *)
RECURSIVE SplitFrom(_, _, _, _)
SplitFrom(s, sep, i, acc) ==
    IF i > Len(s) THEN <<acc>>
    ELSE IF s[i] = sep THEN <<acc>> \o SplitFrom(s, sep, i + 1, <<>>)
    ELSE SplitFrom(s, sep, i + 1, Append(acc, s[i]))

Split(s, sep) == SplitFrom(s, sep, 1, <<>>)

(* the digits of a u32, most significant first, with checked_mul and       *)
(* checked_add: <<n>> for Ok(n), <<>> for Err                              *)
RECURSIVE ParseDigits(_, _, _)
ParseDigits(s, i, acc) ==
    IF i > Len(s) THEN <<acc>>
    ELSE IF ~IsDigit(s[i]) THEN <<>>
    ELSE IF ~Fits32(Shift32(acc, DigitVal(s[i]))) THEN <<>>
    ELSE ParseDigits(s, i + 1, Shift32(acc, DigitVal(s[i])))

(* <u32 as FromStr>::from_str: an optional "+", then at least one digit *)
parse_u32(s) ==
    IF s = <<>> THEN <<>>
    ELSE IF s[1] = "+"
    THEN IF Len(s) = 1 THEN <<>> ELSE ParseDigits(s, 2, Zero32)
    ELSE ParseDigits(s, 1, Zero32)

(* filter_map(|s| s.parse().ok()): the pieces that parse, in order *)
RECURSIVE FilterParsed(_, _)
FilterParsed(pieces, i) ==
    IF i > Len(pieces) THEN <<>>
    ELSE parse_u32(pieces[i]) \o FilterParsed(pieces, i + 1)

(* the closure `parse` of version_is_newer *)
parse(v) ==
    LET base == Split(v, "-")[1]
    IN  FilterParsed(Split(base, "."), 1)

(* parts.get(i).copied().unwrap_or(0), i counted from 0 *)
PartOr0(parts, i) == IF i + 1 <= Len(parts) THEN parts[i + 1] ELSE Zero32

RECURSIVE NewerFrom(_, _, _)
NewerFrom(latest_parts, current_parts, i) ==
    IF i >= 3 THEN FALSE
    ELSE IF Gt32(PartOr0(latest_parts, i), PartOr0(current_parts, i)) THEN TRUE
    ELSE IF Gt32(PartOr0(current_parts, i), PartOr0(latest_parts, i)) THEN FALSE
    ELSE NewerFrom(latest_parts, current_parts, i + 1)

version_is_newer(latest, current) ==
    NewerFrom(parse(latest), parse(current), 0)

(* The strings the comparison is run on: every string over a small         *)
(* alphabet up to a length, and the versions the documentation names.      *)

MaxVerLen == 3

VerAlphabet == {"0", "1", ".", "-", "x"}

NamedVersions ==
    { <<"1", ".", "2", ".", "3">>, <<"1", ".", "2", ".", "0">>,
      <<"2", ".", "0", ".", "0">>, <<"1", ".", "9", ".", "9">>,
      <<"1", ".", "2", ".", "0", "-", "b", "e", "t", "a">>,
      <<"1", ".", "0", ".", "0">>, <<"1", ".", "0", ".", "1">>,
      <<"1", ".", "0">>, <<"1", ".", "x", ".", "3">>, <<"+", "1", ".", "1">>,
      <<"0", ".", "4", "2", "9", "4", "9", "6", "7", "2", "9", "5">>,
      <<"0", ".", "4", "2", "9", "4", "9", "6", "7", "2", "9", "6", ".", "7">> }

VersionStrings ==
    UNION {[1..n -> VerAlphabet] : n \in 0..MaxVerLen} \cup NamedVersions

InitVersion ==
    \E l, c \in VersionStrings :
        ver = [latest |-> l, current |-> c, done |-> FALSE, newer |-> FALSE]

Compare ==
    /\ ~ver.done
    /\ ver' = [ver EXCEPT !.done = TRUE,
                          !.newer = version_is_newer(ver.latest, ver.current)]
    /\ UNCHANGED <<registrarVars, upd, chk, queryVars>>

----------------------------------------------------------------------------
(* check_for_updates_crates_io_timeout: one GET by an agent built with the *)
(* timeout, then the answer is read as JSON.  JSON values are tagged       *)
(* tuples:                                                                 *)
(* <<"null">>, <<"num", n>>, <<"str", s>>, <<"arr", elements>>,            *)
(* <<"obj", sequence of <<key, value>>>>.                                  *)

JNull == <<"null">>

JNum(n) == <<"num", n>>

JStr(str) == <<"str", str>>

JArr(elems) == <<"arr", elems>>

JObj(members) == <<"obj", members>>

(* serde_json::Value::get(key): the member of an object, None otherwise *)
json_get(v, key) ==
    IF v = None \/ v[1] # "obj" THEN None
    ELSE IF \E i \in 1..Len(v[2]) : v[2][i][1] = key
    THEN v[2][CHOOSE i \in 1..Len(v[2]) : v[2][i][1] = key][2]
    ELSE None

(* Value::as_str *)
as_str(v) == IF v = None \/ v[1] # "str" THEN None ELSE <<v[2]>>

Unparseable == <<"unparseable">>

CheckFailed(reason) ==
    [kind |-> "CheckFailed", reason |-> reason, latest |-> <<>>, current |-> <<>>]

UpToDate ==
    [kind |-> "UpToDate", reason |-> "", latest |-> <<>>, current |-> <<>>]

UpdateAvailable(latest, current) ==
    [kind |-> "UpdateAvailable", reason |-> "", latest |-> latest, current |-> current]

(* a match that takes a body without the version field for good news *)
version_check_lenient(response, current) ==
    IF response.kind # "ok"
    THEN CheckFailed("Request failed: " \o response.kind)
    ELSE IF response.body = Unparseable
    THEN CheckFailed("Failed to parse response: ")
    ELSE LET latest_str == as_str(json_get(json_get(response.body, "crate"),
                                            "max_version"))
         IN  IF latest_str = None THEN UpToDate
             ELSE IF version_is_newer(latest_str[1], current)
             THEN UpdateAvailable(latest_str[1], current)
             ELSE UpToDate

(* the match on the result of the call: lib.rs 280-304 *)
version_check(response, current) ==
    IF response.kind # "ok"
    THEN CheckFailed("Request failed: " \o response.kind)
    ELSE IF response.body = Unparseable
    THEN CheckFailed("Failed to parse response: ")
    ELSE LET latest_str == as_str(json_get(json_get(response.body, "crate"),
                                            "max_version"))
         IN  IF latest_str = None
             THEN CheckFailed("Could not parse crates.io response")
             ELSE IF version_is_newer(latest_str[1], current)
             THEN UpdateAvailable(latest_str[1], current)
             ELSE UpToDate

(* what the endpoint can answer *)
PublishedVersions ==
    { <<"1", ".", "2", ".", "3">>, <<"1", ".", "2", ".", "0">>,
      <<"1", ".", "2", ".", "0", "-", "b", "e", "t", "a">>,
      <<"2", ".", "0", ".", "0">>, <<"0", ".", "9">>, <<>> }

CrateBody(v) == JObj(<< <<"crate", JObj(<< <<"name", JStr(<<"h">>)>>, <<"max_version", v>> >>)>> >>)

Bodies ==
    {CrateBody(JStr(v)) : v \in PublishedVersions}
    \cup { CrateBody(JNum(3)), CrateBody(JNull),
           JObj(<< <<"crate", JObj(<< <<"name", JStr(<<"h">>)>> >>)>> >>),
           JObj(<< <<"crate", JStr(<<"1", ".", "2", ".", "3">>)>> >>),
           JObj(<< <<"crate", JArr(<<JStr(<<"max_version">>)>>)>> >>),
           JObj(<< <<"errors", JArr(<<>>)>> >>),
           JObj(<< <<"max_version", JStr(<<"2", ".", "0", ".", "0">>)>> >>),
           JArr(<<JStr(<<"crate">>)>>), JStr(<<"9", ".", "9">>), JNull,
           Unparseable }

Response(kind, body) == [kind |-> kind, body |-> body]

Responses ==
    {Response("ok", b) : b \in Bodies}
    \cup {Response(k, JNull) : k \in {"transport", "status 404", "status 500"}}

(* CARGO_PKG_VERSION of the build *)
BuildVersions ==
    { <<"1", ".", "2", ".", "0">>, <<"1", ".", "9", ".", "9">>,
      <<"0", ".", "9", ".", "0">> }

DefaultTimeoutSecs == 5

MaxTimeout == 2

(* ureq::AgentBuilder::new().timeout(timeout).build() *)
(* Option<Duration>: <<>> for None, <<secs>> for Some *)
NoTimeout == <<>>

build_agent(timeout) == [timeout |-> <<timeout>>]

Check(pc, agent, current, response, result) ==
    [pc |-> pc, agent |-> agent, current |-> current, response |-> response,
     result |-> result]

NoResponse == Response("none", JNull)

NoResult == [kind |-> "none", reason |-> "", latest |-> <<>>, current |-> <<>>]

InitCheck ==
    \E v \in BuildVersions :
        chk = Check("idle", [timeout |-> NoTimeout], v, NoResponse, NoResult)

(* check_for_updates_crates_io(): the default timeout *)
CheckDefault ==
    /\ chk.pc = "idle"
    /\ chk' = Check("calling", build_agent(DefaultTimeoutSecs), chk.current,
                    NoResponse, NoResult)
    /\ UNCHANGED <<registrarVars, upd, ver, queryVars>>

(* check_for_updates_crates_io_timeout(timeout) *)
CheckWithTimeout ==
    /\ chk.pc = "idle"
    /\ \E t \in 1..MaxTimeout :
          chk' = Check("calling", build_agent(t), chk.current,
                       NoResponse, NoResult)
    /\ UNCHANGED <<registrarVars, upd, ver, queryVars>>

(* agent.get(url).set(..).call() has returned (lib.rs 278): Err(e) for a   *)
(* failure of the transport or an error status, which ends the check, or   *)
(* Ok(response), whose body is still to be read; r.body is what the        *)
(* endpoint is sending                                                     *)
Respond ==
    /\ chk.pc = "calling"
    /\ \E r \in Responses :
          chk' = IF r.kind = "ok"
                 THEN [chk EXCEPT !.pc = "reading", !.response = r]
                 ELSE [chk EXCEPT !.pc = "done", !.response = r,
                                  !.result = version_check(r, chk.current)]
    /\ UNCHANGED <<registrarVars, upd, ver, queryVars>>

(* response.into_json() has returned (lib.rs 281): the JSON value, or an   *)
(* error when the body could not be read or is no JSON (Unparseable)       *)
IntoJson ==
    /\ chk.pc = "reading"
    /\ chk' = [chk EXCEPT !.pc = "done",
                          !.result = version_check(chk.response, chk.current)]
    /\ UNCHANGED <<registrarVars, upd, ver, queryVars>>

(* the caller takes the value; the next check is a new call *)
CheckReturn ==
    /\ chk.pc = "done"
    /\ chk' = Check("idle", [timeout |-> NoTimeout], chk.current,
                    NoResponse, NoResult)
    /\ UNCHANGED <<registrarVars, upd, ver, queryVars>>

----------------------------------------------------------------------------
(* Unsigned 64-bit numbers.  A u64 is kept as four limbs, most significant *)
(* first, with value ((x[1] * Limb + x[2]) * Limb + x[3]) * Limb + x[4].   *)

Zero64 == <<0, 0, 0, 0>>

U64Max == <<18446, 74407, 37095, 51615>>

(* the u64 of a number small enough for the checker's integers *)
U64(n) == <<0, 0, n \div Limb, n % Limb>>

IsSmall64(x) == x[1] = 0 /\ x[2] = 0 /\ x[3] = 0

Lt64(a, b) ==
    \E i \in 1..4 : a[i] < b[i] /\ \A j \in 1..(i - 1) : a[j] = b[j]

(* the remainder carried into limb i of a long division by a small d *)
RECURSIVE DivCarry(_, _, _)
DivCarry(x, d, i) ==
    IF i = 1 THEN 0 ELSE (DivCarry(x, d, i - 1) * Limb + x[i - 1]) % d

(* x / d and x % d for a divisor d below 21475 *)
DivSmall(x, d) ==
    LET q(i) == (DivCarry(x, d, i) * Limb + x[i]) \div d
    IN  [q |-> <<q(1), q(2), q(3), q(4)>>, r |-> DivCarry(x, d, 5)]

(* a - b for a >= b; the borrow taken from limb i *)
RECURSIVE Borrow(_, _, _)
Borrow(a, b, i) ==
    IF i = 4 THEN 0
    ELSE IF a[i + 1] - b[i + 1] - Borrow(a, b, i + 1) < 0 THEN 1 ELSE 0

Sub64(a, b) ==
    LET limb(i) == (a[i] - b[i] - Borrow(a, b, i) + Limb) % Limb
    IN  <<limb(1), limb(2), limb(3), limb(4)>>

(* x + 1 for x < U64Max; the carry into limb i *)
RECURSIVE CarryIn(_, _)
CarryIn(x, i) ==
    IF i = 4 THEN 1
    ELSE IF x[i + 1] + CarryIn(x, i + 1) >= Limb THEN 1 ELSE 0

Inc64(x) ==
    LET limb(i) == (x[i] + CarryIn(x, i)) % Limb
    IN  <<limb(1), limb(2), limb(3), limb(4)>>

(* u64::wrapping_sub: a - b modulo 2^64 *)
WrappingSub64(a, b) ==
    IF ~Lt64(a, b) THEN Sub64(a, b)
    ELSE Inc64(Sub64(U64Max, Sub64(b, a)))

(* x * k + add for small k and add; the carry into limb i *)
RECURSIVE MulCarry(_, _, _, _)
MulCarry(x, k, add, i) ==
    IF i = 4 THEN add ELSE (x[i + 1] * k + MulCarry(x, k, add, i + 1)) \div Limb

MulSmallAdd(x, k, add) ==
    LET limb(i) == (x[i] * k + MulCarry(x, k, add, i)) % Limb
    IN  <<limb(1), limb(2), limb(3), limb(4)>>

(* whether x * k + add leaves the four limbs or 64 bits *)
MulOverflows(x, k, add) ==
    \/ x[1] * k + MulCarry(x, k, add, 1) >= Limb
    \/ Lt64(U64Max, MulSmallAdd(x, k, add))

(* the decimal digits of a number below Limb, most significant first *)
RECURSIVE ToDecimal(_)
ToDecimal(n) ==
    IF n < 10 THEN <<Digits[n + 1]>>
    ELSE ToDecimal(n \div 10) \o <<Digits[(n % 10) + 1]>>

(* a limb below the first non-zero one shows all its five digits *)
Padded(n) ==
    LET ds == ToDecimal(n)
    IN  [i \in 1..(5 - Len(ds)) |-> "0"] \o ds

(* <u64 as Display>::fmt *)
RECURSIVE Display64From(_, _)
Display64From(x, i) ==
    IF i = 4 THEN ToDecimal(x[4])
    ELSE IF x[i] = 0 THEN Display64From(x, i + 1)
    ELSE ToDecimal(x[i]) \o Padded(x[i + 1])
         \o (IF i + 2 <= 4 THEN Padded(x[i + 2]) ELSE <<>>)
         \o (IF i + 3 <= 4 THEN Padded(x[i + 3]) ELSE <<>>)

Display64(x) == Display64From(x, 1)

----------------------------------------------------------------------------
(* format_uptime: a number of seconds as "1h 1m 1s", "1m 5s" or "5s".  The *)
(* text is a sequence of characters.                                       *)

(* a format_uptime whose minutes are not reduced by the hours *)
format_uptime_total_mins(running_secs) ==
    LET hours == DivSmall(running_secs, 3600).q
        mins == DivSmall(DivSmall(running_secs, 60).q, 3600).r
        secs == DivSmall(running_secs, 60).r
    IN  IF hours # Zero64
        THEN Display64(hours) \o <<"h", " ">> \o ToDecimal(mins) \o <<"m", " ">>
             \o ToDecimal(secs) \o <<"s">>
        ELSE IF mins > 0
        THEN ToDecimal(mins) \o <<"m", " ">> \o ToDecimal(secs) \o <<"s">>
        ELSE ToDecimal(secs) \o <<"s">>

format_uptime(running_secs) ==
    LET hours == DivSmall(running_secs, 3600).q
        mins == DivSmall(running_secs, 3600).r \div 60
        secs == DivSmall(running_secs, 60).r
    IN  IF hours # Zero64
        THEN Display64(hours) \o <<"h", " ">> \o ToDecimal(mins) \o <<"m", " ">>
             \o ToDecimal(secs) \o <<"s">>
        ELSE IF mins > 0
        THEN ToDecimal(mins) \o <<"m", " ">> \o ToDecimal(secs) \o <<"s">>
        ELSE ToDecimal(secs) \o <<"s">>

(* The durations format_uptime is run on: every number of seconds up to a  *)
(* bound, and the ends of the 64-bit range.                                *)

MaxSecs == 40000

NamedDurations ==
    { U64Max, Sub64(U64Max, U64(15)), Sub64(U64Max, U64(16)),
      <<0, 1, 0, 0>>, <<1, 0, 0, 3599>> }

Durations == {U64(n) : n \in 0..MaxSecs} \cup NamedDurations

NoText == <<>>

InitFormat ==
    \E d \in Durations : fmt = [secs |-> d, done |-> FALSE, text |-> NoText]

FormatUptime ==
    /\ ~fmt.done
    /\ fmt' = [fmt EXCEPT !.done = TRUE, !.text = format_uptime(fmt.secs)]
    /\ UNCHANGED <<registrarVars, upd, chk, ver, upt, proc, det, loc, calls>>

----------------------------------------------------------------------------
(* read_process_uptime: the start time of the process from                 *)
(* /proc/<pid>/stat, the uptime of the system from /proc/uptime, the clock *)
(* ticks of sysconf.  A file is a sequence of characters, or NoFile when   *)
(* it cannot be read.                                                      *)

(* str::split_whitespace: the non-empty runs between white space; acc is   *)
(* the run being read                                                      *)
RECURSIVE SplitWhitespaceFrom(_, _, _)
SplitWhitespaceFrom(s, i, acc) ==
    IF i > Len(s) THEN (IF acc = <<>> THEN <<>> ELSE <<acc>>)
    ELSE IF s[i] \in Whitespace
    THEN (IF acc = <<>> THEN <<>> ELSE <<acc>>) \o SplitWhitespaceFrom(s, i + 1, <<>>)
    ELSE SplitWhitespaceFrom(s, i + 1, Append(acc, s[i]))

split_whitespace(s) == SplitWhitespaceFrom(s, 1, <<>>)

(* the digits of a u64 with checked_mul and checked_add: <<n>> or <<>> *)
RECURSIVE ParseDigits64(_, _, _)
ParseDigits64(s, i, acc) ==
    IF i > Len(s) THEN <<acc>>
    ELSE IF ~IsDigit(s[i]) THEN <<>>
    ELSE IF MulOverflows(acc, 10, DigitVal(s[i])) THEN <<>>
    ELSE ParseDigits64(s, i + 1, MulSmallAdd(acc, 10, DigitVal(s[i])))

(* <u64 as FromStr>::from_str: an optional "+", then at least one digit *)
parse_u64(s) ==
    IF s = <<>> THEN <<>>
    ELSE IF s[1] = "+"
    THEN IF Len(s) = 1 THEN <<>> ELSE ParseDigits64(s, 2, Zero64)
    ELSE ParseDigits64(s, 1, Zero64)

(* <f64 as FromStr>::from_str followed by `as u64`.  The token is an       *)
(* optional sign, then a decimal number (digits, an optional point, digits *)
(* on at least one side of it, an optional exponent of "e" or "E", an      *)
(* optional sign and at least one digit) or one of "inf", "infinity",      *)
(* "nan" in any case.  The number is rounded to the nearest f64, ties to   *)
(* the even mantissa; the cast drops the fraction and saturates, and gives *)
(* 0 for a negative number and for nan.                                    *)

(* u8::to_ascii_lowercase, for the letters of inf, infinity and nan *)
Lower(c) ==
    CASE c = "I" -> "i" [] c = "N" -> "n" [] c = "F" -> "f" [] c = "T" -> "t"
      [] c = "Y" -> "y" [] c = "A" -> "a" [] OTHER -> c

LowerCase(s) == <<>> \o [i \in 1..Len(s) |-> Lower(s[i])]

(* the length of the run of digits of s that starts at index i *)
RECURSIVE DigitRun(_, _)
DigitRun(s, i) ==
    IF i <= Len(s) /\ IsDigit(s[i]) THEN 1 + DigitRun(s, i + 1) ELSE 0

DigitValues(s) == <<>> \o [i \in 1..Len(s) |-> DigitVal(s[i])]

AllZero(ds) == \A i \in 1..Len(ds) : ds[i] = 0

RECURSIVE StripLeadingZeros(_)
StripLeadingZeros(ds) ==
    IF ds # <<>> /\ Head(ds) = 0 THEN StripLeadingZeros(Tail(ds)) ELSE ds

RECURSIVE StripTrailingZeros(_)
StripTrailingZeros(ds) ==
    IF ds # <<>> /\ ds[Len(ds)] = 0
    THEN StripTrailingZeros(SubSeq(ds, 1, Len(ds) - 1)) ELSE ds

(* the exponent is accumulated digit by digit as long as it is below this *)
ExpLimit == 65536

(* the digits of the exponent from the i-th on, added to acc: a digit is   *)
(* taken in while the value is below ExpLimit and dropped afterwards       *)
RECURSIVE ExpFrom(_, _, _)
ExpFrom(ds, i, acc) ==
    IF i > Len(ds) THEN acc
    ELSE ExpFrom(ds, i + 1, IF acc < ExpLimit THEN 10 * acc + ds[i] ELSE acc)

ExpValue(ds) == ExpFrom(ds, 1, 0)

(* parse_number: <<>> when s (the token after its sign) is no decimal      *)
(* number, else <<[int, frac, exp]>>: the digits before and after the      *)
(* point and the exponent                                                  *)
parse_number(s) ==
    LET n_int == DigitRun(s, 1)
        point == n_int + 1 <= Len(s) /\ s[n_int + 1] = "."
        n_frac == IF point THEN DigitRun(s, n_int + 2) ELSE 0
        e == n_int + (IF point THEN 1 ELSE 0) + n_frac + 1
        has_exp == e <= Len(s) /\ s[e] \in {"e", "E"}
        exp_signed == has_exp /\ e + 1 <= Len(s) /\ s[e + 1] \in {"+", "-"}
        d == e + (IF exp_signed THEN 2 ELSE 1)
        n_exp == IF has_exp THEN DigitRun(s, d) ELSE 0
        end == IF has_exp THEN d + n_exp ELSE e
    IN  IF n_int + n_frac = 0 THEN <<>>
        ELSE IF has_exp /\ n_exp = 0 THEN <<>>
        ELSE IF end # Len(s) + 1 THEN <<>>
        ELSE << [int |-> DigitValues(SubSeq(s, 1, n_int)),
                 frac |-> DigitValues(SubSeq(s, n_int + 2, n_int + 1 + n_frac)),
                 exp |-> IF ~has_exp THEN 0
                         ELSE LET v == ExpValue(DigitValues(SubSeq(s, d, d + n_exp - 1)))
                              IN  IF exp_signed /\ s[e + 1] = "-" THEN 0 - v ELSE v] >>

(* parse_inf_nan: "inf" and "infinity" or "nan", in any case *)
parse_inf_nan(s) ==
    LET l == LowerCase(s)
    IN  IF l = <<"n", "a", "n">> THEN <<"nan">>
        ELSE IF l = <<"i", "n", "f">>
                \/ l = <<"i", "n", "f", "i", "n", "i", "t", "y">> THEN <<"inf">>
        ELSE <<>>

(* the binary exponent of x > 0: 2^e <= x < 2^(e+1) *)
RECURSIVE Log2(_)
Log2(x) ==
    IF IsSmall64(x) /\ x[4] < 2 THEN 0 ELSE 1 + Log2(DivSmall(x, 2).q)

(* the u64 of a sequence of decimal digits: <<n>>, or <<>> above u64::MAX *)
RECURSIVE FromDigits(_, _, _)
FromDigits(ds, i, acc) ==
    IF i > Len(ds) THEN <<acc>>
    ELSE IF MulOverflows(acc, 10, ds[i]) THEN <<>>
    ELSE FromDigits(ds, i + 1, MulSmallAdd(acc, 10, ds[i]))

(* 1 - f for a decimal fraction 0.f with f[Len(f)] # 0 *)
OneMinus(f) ==
    <<>> \o [i \in 1..Len(f) |-> IF i = Len(f) THEN 10 - f[i] ELSE 9 - f[i]]

(* k times the decimal fraction 0.g, for k up to 512: the carry into digit *)
(* i; the carry out of the first digit is the integer part                 *)
RECURSIVE ScaleCarry(_, _, _)
ScaleCarry(g, k, i) ==
    IF i = Len(g) THEN 0 ELSE (k * g[i + 1] + ScaleCarry(g, k, i + 1)) \div 10

Scale(g, k) ==
    [carry |-> ScaleCarry(g, k, 0),
     digits |-> <<>> \o [i \in 1..Len(g) |-> (k * g[i] + ScaleCarry(g, k, i)) % 10]]

(* whether 0.g * 2^j <= 1, for 0.g < 1; the doublings are taken nine at a  *)
(* time                                                                    *)
RECURSIVE AtMostOneAfter(_, _)
AtMostOneAfter(g, j) ==
    IF j = 0 THEN TRUE
    ELSE LET step == IF j >= 9 THEN 9 ELSE j
             m == Scale(g, 2 ^ step)
         IN  IF m.carry >= 2 THEN FALSE
             ELSE IF m.carry = 1 THEN j = step /\ AllZero(m.digits)
             ELSE AtMostOneAfter(m.digits, j - step)

(* the nearest f64 of whole + 0.frac, cast to u64, for whole < 2^64 - 1024 *)
(* and frac without trailing zeros                                         *)
RoundedCast(whole, frac) ==
    LET e == IF whole = Zero64 THEN 0 - 1 ELSE Log2(whole)
    IN  IF e >= 53
        THEN \* the f64 are the multiples of ulp = 2^(e-52)
             LET ulp == 2 ^ (e - 52)
                 qr == DivSmall(whole, ulp)
                 up == \/ 2 * qr.r > ulp
                       \/ 2 * qr.r = ulp /\ (frac # <<>> \/ qr.q[4] % 2 = 1)
             IN  MulSmallAdd(IF up THEN Inc64(qr.q) ELSE qr.q, ulp, 0)
        ELSE IF e = 52
        THEN \* the f64 are the integers
             LET up == /\ frac # <<>>
                       /\ \/ frac[1] > 5
                          \/ frac[1] = 5 /\ (Len(frac) > 1 \/ whole[4] % 2 = 1)
             IN  IF up THEN Inc64(whole) ELSE whole
        ELSE \* whole + 1 is an f64 with an even mantissa, the f64 below
             \* it is whole + 1 - 2^(e-52)
             IF frac # <<>> /\ AtMostOneAfter(OneMinus(frac), 53 - e)
             THEN Inc64(whole) ELSE whole

(* the cast of the number int.frac * 10^exp, not negative *)
NumberCast(n) ==
    LET all == n.int \o n.frac
        sig == StripLeadingZeros(all)
        \* the number is 0.sig * 10^point
        point == Len(n.int) - (Len(all) - Len(sig)) + n.exp
        whole_digits ==
            IF point <= 0 THEN <<>>
            ELSE <<>> \o [i \in 1..point |-> IF i <= Len(sig) THEN sig[i] ELSE 0]
        frac == IF point >= Len(sig) THEN <<>>
                ELSE StripTrailingZeros(SubSeq(sig, point + 1, Len(sig)))
        whole == FromDigits(whole_digits, 1, Zero64)
    IN  IF sig = <<>> THEN Zero64
        ELSE IF point > 20 THEN U64Max
        ELSE IF point < 0 THEN Zero64
        ELSE IF whole = <<>> THEN U64Max
        ELSE IF ~Lt64(whole[1], Sub64(U64Max, U64(1023))) THEN U64Max
        ELSE RoundedCast(whole[1], frac)

(* token.parse::<f64>() followed by `as u64`: <<>> when the token is no    *)
(* f64, else <<the u64>>                                                   *)
parse_f64_as_u64(token) ==
    LET signed == token # <<>> /\ token[1] \in {"+", "-"}
        negative == signed /\ token[1] = "-"
        body == IF signed THEN Tail(token) ELSE token
        number == parse_number(body)
        special == parse_inf_nan(body)
    IN  IF number # <<>>
        THEN IF negative THEN <<Zero64>> ELSE <<NumberCast(number[1])>>
        ELSE IF special = <<>> THEN <<>>
        ELSE IF negative \/ special = <<"nan">> THEN <<Zero64>>
        ELSE <<U64Max>>

(* libc::sysconf(_SC_CLK_TCK) as u64: a negative c_long wraps *)
clock_ticks_per_sec(sysconf) ==
    IF sysconf >= 0 THEN U64(sysconf)
    ELSE Inc64(Sub64(U64Max, U64(0 - sysconf)))

(* a / b for b # 0, where b is below 21475 or not below 2^63 (the u64 of a *)
(* negative c_long)                                                        *)
Div64(a, b) ==
    IF IsSmall64(b) THEN DivSmall(a, b[4]).q
    ELSE IF Lt64(a, b) THEN Zero64 ELSE U64(1)

Unavailable == [kind |-> "None", text |-> NoText]

Uptime(text) == [kind |-> "Some", text |-> text]

Panic(message) == [kind |-> "panic", text |-> message]

(* overflow_checks: whether the build traps arithmetic overflow *)
read_process_uptime(stat_file, uptime_file, sysconf, overflow_checks) ==
    LET parts == split_whitespace(stat_file)
        start_ticks == parse_u64(parts[22])
        tokens == split_whitespace(uptime_file)
        uptime == parse_f64_as_u64(tokens[1])
        clock_ticks == clock_ticks_per_sec(sysconf)
        start_secs == Div64(start_ticks[1], clock_ticks)
    IN  IF stat_file = NoFile THEN Unavailable
        ELSE IF Len(parts) <= 21 THEN Unavailable
        ELSE IF start_ticks = <<>> THEN Unavailable
        ELSE IF uptime_file = NoFile THEN Unavailable
        ELSE IF tokens = <<>> THEN Unavailable
        ELSE IF uptime = <<>> THEN Unavailable
        ELSE IF clock_ticks = Zero64 THEN Panic("attempt to divide by zero")
        ELSE IF Lt64(uptime[1], start_secs) /\ overflow_checks
        THEN Panic("attempt to subtract with overflow")
        ELSE Uptime(format_uptime(WrappingSub64(uptime[1], start_secs)))

(* The files and the clock the query is run against.                       *)

StatField(i, start) ==
    CASE i = 1 -> <<"7">>
      [] i = 2 -> <<"(", "d", ")">>
      [] i = 3 -> <<"S">>
      [] i = 22 -> start
      [] OTHER -> <<"0">>

(* a stat line of n fields, the start time in ticks its 22nd *)
RECURSIVE StatLineFrom(_, _, _)
StatLineFrom(n, start, i) ==
    IF i > n THEN <<"\n">>
    ELSE (IF i = 1 THEN <<>> ELSE <<" ">>) \o StatField(i, start)
         \o StatLineFrom(n, start, i + 1)

StatLine(n, start) == StatLineFrom(n, start, 1)

StartTokens ==
    { <<"0">>, <<"2", "5", "0">>, <<"3", "6", "0", "0", "0">>, <<"x">>,
      Display64(U64Max), Display64(U64Max) \o <<"0">> }

(* the same line with tabs between its fields *)
Tabbed(line) ==
    <<>> \o [i \in 1..Len(line) |-> IF line[i] = " " THEN "\t" ELSE line[i]]

StatFiles ==
    {NoFile} \cup {StatLine(n, start) : n \in {21, 22, 23}, start \in StartTokens}
    \cup {Tabbed(StatLine(22, <<"2", "5", "0">>))}

UptimeFiles ==
    { NoFile, <<>>,
      <<"3", "5", "0", ".", "1", "2", " ", "1", "2", "0", "0", ".", "0", "0", "\n">>,
      <<"2", ".", "9", "9", " ", "1", ".", "0", "\n">>,
      <<"u", "p", " ", "1", "\n">>,
      <<"3", "5", "0", ".", "1", "2", "\t", "1", "2", "0", "0", ".", "0", "0", "\n">>,
      <<"1", "e", "3", " ", "5", "\n">>,
      <<"i", "n", "f", " ", "1", "\n">>,
      <<"2", ".", "9", "9", "9", "9", "9", "9", "9", "9", "9", "9", "9", "9", "9",
        "9", "9", "9", "9", "9", "9", " ", "1", "\n">>,
      <<"4", "0", "0">> }

(* what sysconf(_SC_CLK_TCK) can return: a frequency, 0, or -1 for an error *)
ClockTicks == {-1, 0, 1, 100}

UptIdle ==
    [op |-> "read_process_uptime", stat |-> NoFile, uptime |-> NoFile,
     sysconf |-> 100, overflow_checks |-> FALSE, done |-> TRUE,
     result |-> Unavailable]

InitQuery ==
    \E stat \in StatFiles, uptime \in UptimeFiles, sysconf \in ClockTicks,
       overflow_checks \in BOOLEAN :
        upt = [op |-> "none", stat |-> stat, uptime |-> uptime,
               sysconf |-> sysconf, overflow_checks |-> overflow_checks,
               done |-> FALSE, result |-> Unavailable]

ReadProcessUptime ==
    /\ ~upt.done
    /\ upt' = [upt EXCEPT !.op = "read_process_uptime", !.done = TRUE,
                          !.result = read_process_uptime(upt.stat, upt.uptime,
                                        upt.sysconf, upt.overflow_checks)]
    /\ UNCHANGED <<registrarVars, upd, chk, ver, fmt, proc, det, loc, calls>>

----------------------------------------------------------------------------
(* process_is_running: kill(pid, 0) == 0.  The host is its process table:  *)
(* a process is running, or has exited and waits to be reaped (a zombie),  *)
(* or is gone; the caller may signal it (it belongs to the caller's user)  *)
(* or may not; it is a member of the process group pgid, its own or the    *)
(* one it was born into.  Process 1 is init, the caller is process Self.   *)

MaxPid == 4

InitPid == 1

Self == 2

Pids == 1..MaxPid

Gone == [state |-> "none", mine |-> FALSE, pgid |-> 0]

Process(state, mine, pgid) == [state |-> state, mine |-> mine, pgid |-> pgid]

InTable(table, pid) == pid \in Pids /\ table[pid].state # "none"

(* the processes of the process group g, zombies included *)
Group(table, g) == {p \in Pids : InTable(table, p) /\ table[p].pgid = g}

(* the signal goes to one process or to the processes of a group: ESRCH   *)
(* when there is none, 0 when the caller may signal one of them, EPERM     *)
(* otherwise                                                               *)
kill_all(table, targets) ==
    IF targets = {} THEN "ESRCH"
    ELSE IF \E p \in targets : table[p].mine THEN "0" ELSE "EPERM"

(* kill(2) with signal 0: 0, or the errno of the failure.  pid > 0 names a *)
(* process, 0 the caller's process group, another negative number the      *)
(* process group -pid: a pid that leads no group names none.  With -1 the  *)
(* kernel tries every process but init and the caller, drops the EPERM     *)
(* failures and fails with ESRCH only when there was no process to try.    *)
kill(table, pid) ==
    CASE pid > 0 ->
            kill_all(table, IF InTable(table, pid) THEN {pid} ELSE {})
      [] pid = 0 -> kill_all(table, Group(table, table[Self].pgid))
      [] pid = -1 ->
            IF \E p \in Pids \ {InitPid, Self} : InTable(table, p)
            THEN "0" ELSE "ESRCH"
      [] OTHER -> kill_all(table, Group(table, 0 - pid))

process_is_running(table, pid) == kill(table, pid) = "0"

(* the pids a caller can ask about *)
QueryPids == (0 - MaxPid - 1)..(MaxPid + 1)

NoQuery == [op |-> "none", pid |-> 0, ret |-> FALSE]

ProcIdle ==
    [table |-> [p \in Pids |->
                   CASE p = InitPid -> Process("running", FALSE, InitPid)
                     [] p = Self -> Process("running", TRUE, Self)
                     [] OTHER -> Gone],
     last |-> NoQuery]

(* fork, and setpgid or not: the new process gets a free pid, one that     *)
(* names no process and no process group, and is in the group of a process *)
(* of its session or leads its own                                         *)
Spawn ==
    /\ \E p \in Pids \ {InitPid, Self}, mine \in BOOLEAN :
          /\ proc.table[p].state = "none"
          /\ Group(proc.table, p) = {}
          /\ \E g \in {p} \cup {proc.table[q].pgid :
                                  q \in {r \in Pids \ {InitPid} : InTable(proc.table, r)}} :
                proc' = [proc EXCEPT !.table[p] = Process("running", mine, g)]
    /\ UNCHANGED <<registrarVars, upd, chk, ver, fmt, upt, det, loc, calls>>

(* the process exits; its parent has not waited for it yet *)
Exit ==
    /\ \E p \in Pids \ {InitPid, Self} :
          /\ proc.table[p].state = "running"
          /\ proc' = [proc EXCEPT !.table[p].state = "zombie"]
    /\ UNCHANGED <<registrarVars, upd, chk, ver, fmt, upt, det, loc, calls>>

Reap ==
    /\ \E p \in Pids \ {InitPid, Self} :
          /\ proc.table[p].state = "zombie"
          /\ proc' = [proc EXCEPT !.table[p] = Gone]
    /\ UNCHANGED <<registrarVars, upd, chk, ver, fmt, upt, det, loc, calls>>

ProcessIsRunning ==
    /\ \E pid \in QueryPids :
          proc' = [proc EXCEPT !.last =
                      [op |-> "process_is_running", pid |-> pid,
                       ret |-> process_is_running(proc.table, pid)]]
    /\ UNCHANGED <<registrarVars, upd, chk, ver, fmt, upt, det, loc, calls>>

----------------------------------------------------------------------------
(* detect_package_manager: Homebrew when the path of the running           *)
(* executable contains "/Cellar/" or "/homebrew/", with the formula name   *)
(* `brew info --json=v2 hazelnut` reports; Cargo otherwise.                *)

(* str::contains *)
Contains(str, pat) ==
    \E i \in 1..(Len(str) - Len(pat) + 1) : SubSeq(str, i, i + Len(pat) - 1) = pat

(* Value::as_array followed by first() *)
first_of_array(v) ==
    IF v = None \/ v[1] # "arr" \/ v[2] = <<>> THEN None ELSE v[2][1]

BrewInfo == <<"brew", "info", "--json=v2", "hazelnut">>

Detected(pm, log) == [pm |-> pm, log |-> log]

(* lib.rs 185-192: the name of the first formula of the answer, None when  *)
(* the query did not run, failed, or answered something else               *)
full_name_of(brew) ==
    IF brew.fate # "exit0" \/ brew.body = Unparseable THEN None
    ELSE as_str(json_get(first_of_array(json_get(brew.body, "formulae")),
                         "full_name"))

(* a detection that knows the Cellar only *)
detect_package_manager_cellar_only(exe, brew) ==
    IF exe # None /\ Contains(Display(exe), <<"/", "Cellar", "/">>)
    THEN IF full_name_of(brew) # None
         THEN Detected(Homebrew(full_name_of(brew)[1]), <<BrewInfo>>)
         ELSE Detected(Homebrew("hazelnut"), <<BrewInfo>>)
    ELSE Detected(Cargo, <<>>)

(* exe: std::env::current_exe(), None for Err; brew: the fate of the query *)
(* and the JSON it printed                                                 *)
detect_package_manager(exe, brew) ==
    IF exe # None
       /\ (\/ Contains(Display(exe), <<"/", "Cellar", "/">>)
           \/ Contains(Display(exe), <<"/", "homebrew", "/">>))
    THEN IF full_name_of(brew) # None
         THEN Detected(Homebrew(full_name_of(brew)[1]), <<BrewInfo>>)
         ELSE Detected(Homebrew("hazelnut"), <<BrewInfo>>)
    ELSE Detected(Cargo, <<>>)

(* The executables and the answers of brew the detection is run against.   *)

ExePaths ==
    { None,
      <<"/", "opt", "homebrew", "Cellar", "hazelnut", "0.2.16", "bin", "hazelnut">>,
      <<"/", "usr", "local", "Cellar", "hazelnut", "0.2.16", "bin", "hazelnut">>,
      <<"/", "opt", "homebrew", "bin", "hazelnut">>,
      <<"/", "home", "user", ".cargo", "bin", "hazelnut">>,
      <<"/", "usr", "bin", "hazelnut">>,
      <<"/", "home", "user", "bin", "Cellar">>,
      <<"/", "homebrew">> }

Formula(members) == JObj(members)

BrewBodies ==
    { JObj(<< <<"formulae", JArr(<<Formula(<< <<"name", JStr("hazelnut")>>,
                                              <<"full_name", JStr("ricardodantas/tap/hazelnut")>> >>)>>)>>,
              <<"casks", JArr(<<>>)>> >>),
      JObj(<< <<"formulae", JArr(<<Formula(<< <<"full_name", JStr("hazelnut")>> >>),
                                   Formula(<< <<"full_name", JStr("other")>> >>)>>)>> >>),
      JObj(<< <<"formulae", JArr(<<>>)>> >>),
      JObj(<< <<"formulae", JArr(<<Formula(<< <<"name", JStr("hazelnut")>> >>)>>)>> >>),
      JObj(<< <<"formulae", JArr(<<Formula(<< <<"full_name", JNum(3)>> >>)>>)>> >>),
      JObj(<< <<"formulae", JArr(<<JStr("hazelnut")>>)>> >>),
      JObj(<< <<"formulae", Formula(<< <<"full_name", JStr("hazelnut")>> >>)>> >>),
      JObj(<< <<"casks", JArr(<<>>)>> >>),
      JArr(<<Formula(<< <<"full_name", JStr("hazelnut")>> >>)>>),
      JNull,
      Unparseable }

BrewFates == {"nolaunch", "exit0", "exit1"}

DetIdle ==
    [exe |-> None, brew |-> [fate |-> "nolaunch", body |-> JNull], done |-> TRUE,
     result |-> Detected(Cargo, <<>>)]

InitDetector ==
    \E exe \in ExePaths, fate \in BrewFates, body \in BrewBodies :
        det = [exe |-> exe, brew |-> [fate |-> fate, body |-> body],
               done |-> FALSE, result |-> Detected(Cargo, <<>>)]

DetectPackageManager ==
    /\ ~det.done
    /\ det' = [det EXCEPT !.done = TRUE,
                          !.result = detect_package_manager(det.exe, det.brew)]
    /\ UNCHANGED <<registrarVars, upd, chk, ver, fmt, upt, proc, loc, calls>>

----------------------------------------------------------------------------
(* The hosts the locator is run against: every fate of `which`, outputs    *)
(* with and without a path, every set of common locations.                 *)

WhichFates == {"nolaunch", "nonzero", "zero"}

WhichOutputs ==
    { <<>>, <<"\n">>, <<"\t", "\n">>, WhichBin \o <<"\n">>,
      <<" ">> \o WhichBin \o <<"\r", "\n">>, RelativeBin \o <<"\n">> }

CommonSets == SUBSET {common_paths[i] : i \in 1..Len(common_paths)}

LocatorEnvs ==
    { LocEnv(w, out, common, cargo) :
        w \in WhichFates, out \in WhichOutputs, common \in CommonSets,
        cargo \in BOOLEAN }

LocIdle ==
    [env |-> LocEnv("nolaunch", <<>>, {}, FALSE), home |-> None, done |-> TRUE,
     result |-> NotFound, trace |-> <<>>]

InitLocator ==
    \E env \in LocatorEnvs, home \in {None, HomePath} :
        loc = [env |-> env, home |-> home, done |-> FALSE, result |-> NotFound,
               trace |-> <<>>]

GetDaemonBinaryPath ==
    /\ ~loc.done
    /\ loc' = [loc EXCEPT !.done = TRUE,
                          !.result = get_daemon_binary_path(loc.env, loc.home),
                          !.trace = LocatorTrace(loc.env, loc.home)]
    /\ UNCHANGED <<registrarVars, upd, chk, ver, fmt, upt, proc, det, calls>>

----------------------------------------------------------------------------
(* The specifications: the registrar, and the updater.                     *)

ChkIdle == Check("idle", [timeout |-> NoTimeout], <<>>, NoResponse, NoResult)

NoVer == [latest |-> <<>>, current |-> <<>>, done |-> TRUE, newer |-> FALSE]

RegistrarIdle ==
    /\ platform = "linux"
    /\ homeDir = HomePath
    /\ configDir = ConfigPath
    /\ fs = [p \in DescriptorPaths |-> NoFile]
    /\ dirs = {}
    /\ last = NoCall

FmtIdle == [secs |-> Zero64, done |-> TRUE, text |-> NoText]

QueriesIdle ==
    /\ fmt = FmtIdle /\ upt = UptIdle /\ proc = ProcIdle /\ det = DetIdle
    /\ loc = LocIdle /\ calls = CallsIdle

UpdaterIdle == upd = NoUpdate /\ chk = ChkIdle /\ ver = NoVer

Init ==
    InitRegistrar /\ upd = NoUpdate /\ chk = ChkIdle /\ ver = NoVer /\ QueriesIdle

(* the registrar with one caller: one call after the other, and no other   *)
(* process at the descriptors                                              *)
Sequential == "a"

Next ==
    \E c \in {Sequential} :
        \/ CallIsEnabled(c) \/ CallEnable(c) \/ CallDisable(c) \/ CallToggle(c)
        \/ IsEnabledPath(c) \/ IsEnabledExists(c) \/ ToggleBranch(c)
        \/ EnablePath(c) \/ EnableCreateDir(c) \/ EnableLocate(c)
        \/ EnableContentProbe(c) \/ EnableCreate(c) \/ EnableWrite(c)
        \/ EnableReload(c)
        \/ DisablePath(c) \/ DisableExists(c) \/ DisableRemoveFile(c)
        \/ DisableReload(c)
        \/ Return(c)

Spec == Init /\ [][Next]_vars

InitUpdate ==
    RegistrarIdle /\ upd = NoUpdate /\ chk = ChkIdle /\ ver = NoVer /\ QueriesIdle

NextUpdate ==
    \/ RunUpdate \/ CargoInstall \/ BrewUpdate \/ BrewUpgrade \/ BrewReinstall
    \/ RunUpdateReturn

SpecUpdate == InitUpdate /\ [][NextUpdate]_vars

InitChecker ==
    RegistrarIdle /\ upd = NoUpdate /\ InitCheck /\ ver = NoVer /\ QueriesIdle

NextCheck ==
    \/ CheckDefault \/ CheckWithTimeout \/ Respond \/ IntoJson \/ CheckReturn

SpecCheck == InitChecker /\ [][NextCheck]_vars

InitCompare ==
    RegistrarIdle /\ upd = NoUpdate /\ chk = ChkIdle /\ InitVersion /\ QueriesIdle

NextVersion == Compare

SpecVersion == InitCompare /\ [][NextVersion]_vars

InitFormatter ==
    /\ RegistrarIdle /\ UpdaterIdle /\ InitFormat
    /\ upt = UptIdle /\ proc = ProcIdle /\ det = DetIdle /\ loc = LocIdle
    /\ calls = CallsIdle

NextFormat == FormatUptime

SpecFormat == InitFormatter /\ [][NextFormat]_vars

InitProbe == RegistrarIdle /\ UpdaterIdle /\ QueriesIdle

NextProbe == Spawn \/ Exit \/ Reap \/ ProcessIsRunning

SpecProbe == InitProbe /\ [][NextProbe]_vars

InitLocate ==
    /\ RegistrarIdle /\ UpdaterIdle /\ InitLocator
    /\ fmt = FmtIdle /\ upt = UptIdle /\ proc = ProcIdle /\ det = DetIdle
    /\ calls = CallsIdle

NextLocate == GetDaemonBinaryPath

SpecLocate == InitLocate /\ [][NextLocate]_vars

InitDetect ==
    /\ RegistrarIdle /\ UpdaterIdle /\ InitDetector
    /\ fmt = FmtIdle /\ upt = UptIdle /\ proc = ProcIdle /\ loc = LocIdle
    /\ calls = CallsIdle

NextDetect == DetectPackageManager

SpecDetect == InitDetect /\ [][NextDetect]_vars

InitUptime ==
    /\ RegistrarIdle /\ UpdaterIdle /\ InitQuery
    /\ fmt = FmtIdle /\ proc = ProcIdle /\ det = DetIdle /\ loc = LocIdle
    /\ calls = CallsIdle

NextUptime == ReadProcessUptime

SpecUptime == InitUptime /\ [][NextUptime]_vars

InitRacing == InitRace /\ UpdaterIdle /\ QueriesIdle

(* two callers, one call each: both may disable or ask, one may enable *)
Enablers == {"a"}

NextRace ==
    \/ \E c \in Callers :
          \/ CallIsEnabled(c) \/ IsEnabledPath(c) \/ IsEnabledExists(c)
          \/ CallDisable(c) \/ DisablePath(c) \/ DisableExists(c)
          \/ DisableRemoveFile(c) \/ DisableReload(c)
    \/ \E c \in Enablers :
          \/ CallEnable(c) \/ EnablePath(c) \/ EnableCreateDir(c)
          \/ EnableLocate(c) \/ EnableContentProbe(c) \/ EnableCreate(c)
          \/ EnableWrite(c) \/ EnableReload(c)

SpecRace == InitRacing /\ [][NextRace]_vars

----------------------------------------------------------------------------
(* Properties of the registrar.  They are about the calls of one caller,  *)
(* looked at when a call returns: last is the call that returned before    *)
(* it, last' the call itself, Fs0 and Dirs0 what it found when it was      *)
(* made, fs' and dirs' what it leaves.                                     *)

Min(S) == CHOOSE x \in S : \A y \in S : x <= y

Max(S) == CHOOSE x \in S : \A y \in S : x >= y

Returning == calls[Sequential].pc = "done" /\ calls'[Sequential].pc = "idle"

AtRest == calls[Sequential].pc = "idle"

Fs0 == calls[Sequential].fs0

Dirs0 == calls[Sequential].dirs0

NoDescriptor == \A p \in DescriptorPaths : fs[p] = NoFile

Attempted(call, effect) == \E i \in 1..Len(call.trace) : call.trace[i] = effect

(* C1 as stated: after an enable() that returned ok, the next call, if it  *)
(* is is_enabled(), returns true; after a disable() that returned ok it    *)
(* returns false; with no descriptor on disk is_enabled() returns false.   *)
C1_EnableThenEnabled_AnyProbe ==
    [][ Returning
        => /\ (last.op = "enable" /\ last.res = Ok /\ last'.op = "is_enabled")
              => last'.ret = Value(TRUE)
           /\ (last.op = "disable" /\ last.res = Ok /\ last'.op = "is_enabled")
              => last'.ret = Value(FALSE)
           /\ (NoDescriptor /\ last'.op = "is_enabled")
              => last'.ret = Value(FALSE) ]_vars

(* C1, amended: after an enable() that returned ok, an immediately         *)
(* following is_enabled() that resolves the same descriptor path (always   *)
(* on macos; on linux when the service-manager probe answers as it did for *)
(* the path in enable()) returns true; after a disable() that returned ok, *)
(* such an is_enabled() returns false; with no descriptor on disk          *)
(* is_enabled() returns false.                                             *)
C1_EnableThenEnabled ==
    [][ Returning
        => /\ (last.op = "enable" /\ last.res = Ok /\ last'.op = "is_enabled"
               /\ last'.path = last.path)
              => last'.ret = Value(TRUE)
           /\ (last.op = "disable" /\ last.res = Ok /\ last'.op = "is_enabled"
               /\ last'.path = last.path)
              => last'.ret = Value(FALSE)
           /\ (NoDescriptor /\ last'.op = "is_enabled")
              => last'.ret = Value(FALSE) ]_vars

(* an is_enabled() that found a complete descriptor, one enable() wrote *)
C1_Witness ==
    /\ AtRest /\ last.op = "is_enabled" /\ last.ret = Value(TRUE)
    /\ last.path # None /\ fs[last.path] = DescriptorAt(last.path)

(* the descriptor-path probes of a toggle(): is_enabled()'s and the one of *)
(* the operation it called                                                 *)
PathProbes(call) ==
    IF Len(call.probes) >= 2 THEN {call.probes[1], call.probes[2]} ELSE {}

(* is_enabled() on the files, with sysd the answer of its probe *)
is_enabled(plat, home, config, files, sysd) ==
    LET path == get_autostart_path(plat, home, config, sysd)
    IN  IF path = None THEN FALSE ELSE path_exists(files, path)

EnabledFor(files, sysd) == is_enabled(platform, homeDir, configDir, files, sysd)

(* C2 as stated: of two consecutive successful toggle() calls the second   *)
(* returns the opposite of the first, each returns the enabled state it    *)
(* leaves behind, and is_enabled() after the second is what it was before  *)
(* the first.                                                              *)
C2_ToggleTwice_AnyProbe ==
    [][ (Returning /\ last.op = "toggle" /\ last.res = Ok
         /\ last'.op = "toggle" /\ last'.res = Ok)
        => /\ last'.ret = Value(~last.ret[1])
           /\ \A q \in ProbeAnswers(platform) :
                /\ Value(EnabledFor(Fs0, q)) = last.ret
                /\ Value(EnabledFor(fs', q)) = last'.ret
                /\ EnabledFor(fs', q) = last.was ]_vars

(* C2, amended: the same, provided that on linux every evaluation of the   *)
(* service-manager probe that selects the descriptor path, in the two      *)
(* toggle() calls and in the is_enabled() calls around them, gives the     *)
(* same answer q.                                                          *)
C2_ToggleTwice ==
    [][ (Returning /\ last.op = "toggle" /\ last.res = Ok
         /\ last'.op = "toggle" /\ last'.res = Ok)
        => \A q \in ProbeAnswers(platform) :
             (PathProbes(last) \cup PathProbes(last') \subseteq {q})
             => /\ last'.ret = Value(~last.ret[1])
                /\ Value(EnabledFor(Fs0, q)) = last.ret
                /\ Value(EnabledFor(fs', q)) = last'.ret
                /\ EnabledFor(fs', q) = last.was ]_vars

(* the call that is about to return *)
Ending == calls[Sequential]

(* two toggle() calls in a row have succeeded, with one probe answer       *)
(* throughout: the first found nothing and enabled, the second, about to   *)
(* return, has removed the descriptor the first wrote                      *)
C2_Witness ==
    /\ last.op = "toggle" /\ last.res = Ok
    /\ last.was = FALSE /\ last.ret = Value(TRUE)
    /\ Ending.op = "toggle" /\ Ending.pc = "done" /\ Ending.res = Ok
    /\ Ending.was = TRUE /\ Ending.ret = Value(FALSE)
    /\ Attempted(last, "write") /\ Attempted(Ending, "remove_file")
    /\ platform = "linux" /\ PathProbes(last) \cup PathProbes(Ending) = {TRUE}
    /\ EnabledFor(Fs0, TRUE) /\ ~EnabledFor(fs, TRUE)

(* the text of file is the start of the text of content, and less *)
CutShort(file, content) ==
    /\ TextLen(file) < TextLen(content)
    /\ Text(file) = SubSeq(Text(content), 1, TextLen(file))

(* C3 as stated: an enable() right after an enable() that returned ok,     *)
(* resolving the same binary path, returns ok, writes the same descriptor  *)
(* path and leaves there the content the first call left.                  *)
C3_EnableIdempotent_AnyProbe ==
    [][ (Returning /\ last.op = "enable" /\ last.res = Ok /\ last'.op = "enable"
         /\ last'.bin = last.bin)
        => /\ last'.res = Ok
           /\ last'.path = last.path
           /\ fs'[last'.path] = Fs0[last.path] ]_vars

(* C3, amended: an enable() right after an enable() that returned ok,      *)
(* resolving the same binary path and getting the probe answers the first  *)
(* got, resolves the same descriptor path and opens the descriptor for     *)
(* writing; it returns ok exactly when fs::write did not fail, and then    *)
(* the descriptor holds the content the first call left, the template of   *)
(* the probe answer around the binary path.  When fs::write fails the call *)
(* returns the error: the descriptor is as the first call left it if the   *)
(* file could not be opened, and cut short if the writing failed.          *)
C3_EnableIdempotent ==
    [][ (Returning /\ last.op = "enable" /\ last.res = Ok /\ last'.op = "enable"
         /\ last'.bin = last.bin /\ last'.probes = last.probes)
        => LET content == render_content(platform, last'.bin,
                                         last'.probes[Len(last'.probes)])
           IN  /\ last'.path = last.path
               /\ Attempted(last', "write")
               /\ Fs0[last.path] = content
               /\ last'.fault \in {"none", "create", "write"}
               /\ last'.res = Ok <=> last'.fault = "none"
               /\ last'.fault = "none" => fs'[last'.path] = content
               /\ last'.fault = "create" => fs'[last'.path] = content
               /\ last'.fault = "write" => CutShort(fs'[last'.path], content)
               /\ \A q \in DescriptorPaths \ {last'.path} : fs'[q] = Fs0[q] ]_vars

(* two enable() calls in a row have succeeded with the same binary path    *)
(* and the same probe answers: the second, about to return, found the unit *)
(* the first wrote and has written it again                                *)
C3_Witness ==
    /\ last.op = "enable" /\ last.res = Ok /\ last.bin = WhichBin
    /\ Ending.op = "enable" /\ Ending.pc = "done" /\ Ending.res = Ok
    /\ Ending.bin = last.bin /\ Ending.probes = last.probes
    /\ platform = "linux" /\ last.probes = <<TRUE, TRUE>>
    /\ Attempted(Ending, "write") /\ Ending.written = TextLen(Ending.content)
    /\ Fs0[ServicePath] = <<UnitHead>> \o Display(WhichBin) \o <<UnitTail>>
    /\ fs[ServicePath] = Fs0[ServicePath]

(* C4: a disable() whose descriptor path holds no file returns ok, does    *)
(* not attempt a removal and changes neither files nor directories; hence  *)
(* a disable() of the same target right after a disable() that returned ok *)
(* returns ok as well.                                                     *)
C4_DisableAbsentIsNoOp ==
    [][ Returning
        => /\ (last'.op = "disable" /\ last'.path # None
               /\ Fs0[last'.path] = NoFile)
              => /\ last'.res = Ok
                 /\ ~Attempted(last', "remove_file")
                 /\ fs' = Fs0 /\ dirs' = Dirs0
           /\ (last.op = "disable" /\ last.res = Ok /\ last'.op = "disable"
               /\ last'.path = last.path)
              => (last'.res = Ok /\ ~Attempted(last', "remove_file")) ]_vars

(* a disable() on a supported platform found nothing to remove *)
C4_Witness ==
    /\ AtRest /\ last.op = "disable" /\ last.res = Ok /\ last.path # None
    /\ ~Attempted(last, "remove_file") /\ fs[last.path] = NoFile

(* C5: an enable() that returns NotFound has attempted no file-system      *)
(* mutation: no directory was created, no descriptor written or changed.   *)
C5_NotFoundBeforeMutation ==
    [][ (Returning /\ last'.op = "enable" /\ last'.res = NotFound)
        => /\ ~Attempted(last', "create_dir_all")
           /\ ~Attempted(last', "write")
           /\ fs' = Fs0 /\ dirs' = Dirs0 ]_vars

(* C6: on a platform with no registration mechanism enable() and disable() *)
(* return Unsupported, attempt no file-system change and launch no         *)
(* command, and is_enabled() returns false.                                *)
C6_UnsupportedPlatform ==
    [][ (Returning /\ platform = "other")
        => /\ last'.op \in {"enable", "disable"}
              => /\ last'.res = Unsupported
                 /\ last'.trace = <<>>
                 /\ fs' = Fs0 /\ dirs' = Dirs0
           /\ last'.op = "is_enabled" => last'.ret = Value(FALSE) ]_vars

C6_Witness ==
    /\ AtRest /\ platform = "other" /\ last.op = "enable"
    /\ last.res = Unsupported /\ last.trace = <<>> /\ NoDescriptor

(* the descriptor texts that run the binary at path bin *)
DescriptorsRunning(bin) ==
    { <<PlistHead>> \o Display(bin) \o <<PlistTail>>,
      <<UnitHead>> \o Display(bin) \o <<UnitTail>>,
      <<DesktopHead>> \o Display(bin) \o <<DesktopTail>> }

Wrote(call) == call.res = Ok /\ Attempted(call, "write")

(* C13: the descriptor a successful enable() has written is one of the     *)
(* three templates around the resolved path of the binary, followed by the *)
(* argument run, and that path is absolute.                                *)
C13_AbsoluteBinaryPath ==
    (AtRest /\ Wrote(last))
    => /\ IsAbsolute(last.bin)
       /\ fs[last.path] \in DescriptorsRunning(last.bin)

(* What holds of the code: the descriptor is a template around the path    *)
(* the locator returned, which is absolute unless it is what `which`       *)
(* printed.                                                                *)
DescriptorRunsLocatedBinary ==
    (AtRest /\ Wrote(last))
    => /\ fs[last.path] \in DescriptorsRunning(last.bin)
       /\ IsAbsolute(last.bin) \/ last.bin = RelativeBin

(* what the first source yields: what `which` printed between the white    *)
(* space around it, if it exited with 0 and printed anything else          *)
RefInk(out) == {i \in 1..Len(out) : out[i] \notin Whitespace}

RefWhich(env) ==
    IF env.which # "zero" \/ RefInk(env.stdout) = {} THEN None
    ELSE SubSeq(env.stdout, Min(RefInk(env.stdout)), Max(RefInk(env.stdout)))

(* the second: the common location that exists and stands first in the list *)
RefCommon(env) ==
    LET found == {i \in 1..Len(common_paths) : common_paths[i] \in env.common}
    IN  IF found = {} THEN None ELSE common_paths[Min(found)]

(* the third: hazelnutd in the cargo directory of the home directory *)
RefCargo(env, home) ==
    IF home = None \/ ~env.cargo THEN None ELSE home \o <<".cargo", "bin", "hazelnutd">>

RefConsulted(trace, path) == \E i \in 1..Len(trace) : trace[i] = <<"exists", path>>

(* C15: the locator returns what `which` yields; if that is nothing, the   *)
(* first existing common location in the listed order; if there is none,   *)
(* the cargo binary; NotFound exactly when all three yield nothing.  It    *)
(* asks `which` first, looks at a common location only when `which` and    *)
(* the locations listed before it yielded nothing, and at the cargo        *)
(* directory only when no common location exists.                          *)
C15_LocatorOrder ==
    loc.done
    => /\ loc.result =
             (IF RefWhich(loc.env) # None THEN RefWhich(loc.env)
              ELSE IF RefCommon(loc.env) # None THEN RefCommon(loc.env)
              ELSE IF RefCargo(loc.env, loc.home) # None
              THEN RefCargo(loc.env, loc.home)
              ELSE NotFound)
       /\ loc.result = NotFound
          <=> /\ RefWhich(loc.env) = None
              /\ RefCommon(loc.env) = None
              /\ RefCargo(loc.env, loc.home) = None
       /\ loc.trace[1] = <<"which", <<"hazelnutd">> >>
       /\ \A i \in 1..Len(common_paths) :
             RefConsulted(loc.trace, common_paths[i])
             <=> /\ RefWhich(loc.env) = None
                 /\ \A j \in 1..(i - 1) : common_paths[j] \notin loc.env.common
       /\ \A i \in 1..Len(common_paths) :
             RefConsulted(loc.trace, common_paths[i])
             => loc.trace[i + 1] = <<"exists", common_paths[i]>>
       /\ (loc.home # None /\ RefConsulted(loc.trace, loc.home \o <<".cargo", "bin", "hazelnutd">>))
          <=> (loc.home # None /\ RefWhich(loc.env) = None /\ RefCommon(loc.env) = None)
       /\ Len(loc.trace) <= Len(common_paths) + 2

(* `which` succeeded with empty output, the first two common locations do  *)
(* not exist, the third does                                               *)
C15_Witness ==
    /\ loc.done /\ loc.env.which = "zero" /\ loc.env.stdout = <<"\n">>
    /\ loc.env.common = {common_paths[3]} /\ loc.env.cargo
    /\ loc.result = common_paths[3] /\ Len(loc.trace) = 4

(* C16: an enable() or disable() that returns an I/O error leaves every    *)
(* descriptor as it was: the same content where there was a file, no file  *)
(* where there was none.                                                   *)
C16_IoErrorKeepsDescriptor ==
    [][ (Returning /\ last'.op \in {"enable", "disable"} /\ last'.res = IoError)
        => fs' = Fs0 ]_vars

(* What holds of the code: the same unless it is the write into the        *)
(* created or emptied file that failed; then the file holds a start of the *)
(* content, which may be nothing, and no other descriptor has changed.     *)
IoErrorKeepsDescriptorUnlessWriteFailed ==
    [][ (Returning /\ last'.op \in {"enable", "disable"} /\ last'.res = IoError)
        => /\ last'.fault \in {"create_dir_all", "create", "write", "remove_file"}
           /\ last'.fault # "write" => fs' = Fs0
           /\ last'.fault = "write"
              => /\ CutShort(fs'[last'.path],
                             render_content(platform, last'.bin,
                                            last'.probes[Len(last'.probes)]))
                 /\ \A q \in DescriptorPaths \ {last'.path} :
                       fs'[q] = Fs0[q] ]_vars

(* C17: enable() and disable() launch the reload only after the write or  *)
(* the removal of the descriptor has succeeded, and on the systemd target; *)
(* whether the reload does not start or exits with an error, the call      *)
(* returns ok, the descriptor is what the write or the removal left and no *)
(* other descriptor has changed.                                           *)
C17_ReloadBestEffort ==
    [][ (Returning /\ last'.op \in {"enable", "disable"})
        => /\ Attempted(last', DaemonReload)
              => /\ last'.fault = "none"
                 /\ last'.trace[Len(last'.trace)] = DaemonReload
                 /\ last'.op = "enable" => Attempted(last', "write")
                 /\ last'.op = "disable" => Attempted(last', "remove_file")
                 /\ last'.path = Join(homeDir, ServiceRel)
           /\ (last'.res = Ok /\ last'.path = Join(homeDir, ServiceRel))
              => Attempted(last', DaemonReload)
           /\ last'.reload \in {"nolaunch", "exit1"}
              => /\ last'.res = Ok
                 /\ last'.op = "enable" => fs'[last'.path] \in DescriptorsRunning(last'.bin)
                 /\ last'.op = "disable" => fs'[last'.path] = NoFile
                 /\ \A q \in DescriptorPaths \ {last'.path} : fs'[q] = Fs0[q] ]_vars

(* What holds of the code: on linux the reload is the last thing every     *)
(* enable() and disable() does that did not fail before, whichever the     *)
(* target and also when disable() found no descriptor to remove; it is     *)
(* never launched after a failure, nor on macos; its outcome changes       *)
(* neither the result nor any descriptor.                                  *)
ReloadLastOnLinux ==
    [][ (Returning /\ last'.op \in {"enable", "disable"})
        => /\ Attempted(last', DaemonReload)
              <=> (platform = "linux" /\ last'.res = Ok)
           /\ Attempted(last', DaemonReload)
              => /\ last'.trace[Len(last'.trace)] = DaemonReload
                 /\ \A i \in 1..(Len(last'.trace) - 1) : last'.trace[i] # DaemonReload
                 /\ last'.reload \in ReloadOutcomes
                 /\ last'.op = "enable" => Attempted(last', "write")
                 /\ last'.op = "disable"
                    => (Attempted(last', "remove_file") <=> Fs0[last'.path] # NoFile)
                 /\ fs'[last'.path] = NoFile <=> last'.op = "disable"
           /\ last'.reload \in {"nolaunch", "exit1"}
              => /\ last'.res = Ok
                 /\ last'.op = "enable" => fs'[last'.path] \in DescriptorsRunning(last'.bin)
                 /\ last'.op = "disable" => fs'[last'.path] = NoFile
                 /\ \A q \in DescriptorPaths \ {last'.path} : fs'[q] = Fs0[q] ]_vars

(* an enable() whose target is the desktop entry has launched the reload *)
ReloadOffSystemd ==
    /\ AtRest /\ last.op = "enable" /\ last.res = Ok
    /\ last.path = DesktopPath /\ Attempted(last, DaemonReload)

(* C20: on linux the descriptor a successful enable() has written has the  *)
(* content of the mechanism its path belongs to: systemd unit content at   *)
(* the user-unit path, desktop-entry content at the autostart path,        *)
(* whatever the two evaluations of the probe in the call answered.         *)
C20_ContentMatchesPath ==
    (AtRest /\ platform = "linux" /\ Wrote(last))
    => /\ last.path = ServicePath
          => fs[ServicePath] = <<UnitHead>> \o Display(last.bin) \o <<UnitTail>>
       /\ last.path = DesktopPath
          => fs[DesktopPath] = <<DesktopHead>> \o Display(last.bin) \o <<DesktopTail>>

(* What holds of the code: the same when the evaluation of the probe for   *)
(* the content answered as the one for the path.                           *)
ContentMatchesPathOnEqualProbes ==
    (AtRest /\ platform = "linux" /\ Wrote(last)
     /\ last.probes[Len(last.probes)] = last.probes[Len(last.probes) - 1])
    => /\ last.path = ServicePath
          => fs[ServicePath] = <<UnitHead>> \o Display(last.bin) \o <<UnitTail>>
       /\ last.path = DesktopPath
          => fs[DesktopPath] = <<DesktopHead>> \o Display(last.bin) \o <<DesktopTail>>

----------------------------------------------------------------------------
(* Properties of the updater.                                              *)

Launched(o) == o # "nolaunch"

(* the command exited, and with a status other than 0; a command killed by *)
(* a signal has not exited                                                 *)
ExitedNonZero(o) == o \in {"exit1", "exit2"}

(* the call has gone through its commands *)
Updated == upd.pc = "done"

(* C7: for the Homebrew origin run_update launches brew update, then brew  *)
(* upgrade, then brew reinstall only if upgrade was launched and exited    *)
(* non-zero, so at most once and never after an upgrade that succeeded or  *)
(* did not launch; it returns ok exactly when upgrade exited zero or the   *)
(* reinstall exited zero, and an error text otherwise, with no further     *)
(* command launched.                                                       *)
C7_UpgradeThenReinstallOnce ==
    (upd.pm.kind = "Homebrew" /\ Updated)
    => /\ Len(upd.log) \in {2, 3}
       /\ upd.log[1].argv = <<"brew", "update">>
       /\ upd.log[2].argv = <<"brew", "upgrade", upd.pm.formula>>
       /\ Len(upd.log) = 3 => ExitedNonZero(upd.log[2].out)
       /\ Len(upd.log) = 3
          => upd.log[3].argv = <<"brew", "reinstall", upd.pm.formula>>
       /\ upd.result = Ok
          <=> \/ upd.log[2].out = "exit0"
              \/ (Len(upd.log) = 3 /\ upd.log[3].out = "exit0")
       /\ upd.result # Ok => (Len(upd.result) = 3 /\ upd.result[1] = "Err")

(* What holds of the code: the same with "ended in any way but with status *)
(* 0" for "exited non-zero": brew reinstall is launched exactly when brew  *)
(* upgrade was launched and did not succeed, killed by a signal included.  *)
ReinstallAfterAnyFailedUpgrade ==
    (upd.pm.kind = "Homebrew" /\ Updated)
    => /\ Len(upd.log) \in {2, 3}
       /\ upd.log[1].argv = <<"brew", "update">>
       /\ upd.log[2].argv = <<"brew", "upgrade", upd.pm.formula>>
       /\ Len(upd.log) = 3
          <=> (Launched(upd.log[2].out) /\ ~Success(upd.log[2].out))
       /\ Len(upd.log) = 3
          => upd.log[3].argv = <<"brew", "reinstall", upd.pm.formula>>
       /\ upd.result = Ok
          <=> \/ upd.log[2].out = "exit0"
              \/ (Len(upd.log) = 3 /\ upd.log[3].out = "exit0")
       /\ upd.result # Ok => (Len(upd.result) = 3 /\ upd.result[1] = "Err")

(* brew upgrade was killed by a signal and brew reinstall was launched *)
ReinstallAfterCrash ==
    /\ upd.pm.kind = "Homebrew" /\ Updated /\ Len(upd.log) = 3
    /\ upd.log[2].out = "signal"

(* the result of the Homebrew chain as upgrade and reinstall decide it *)
RefBrewResult(upgrade, reinstall) ==
    CASE upgrade = "exit0" -> Ok
      [] upgrade = "nolaunch" -> <<"Err", "Failed to run brew: ", upgrade>>
      [] reinstall = "exit0" -> Ok
      [] reinstall = "nolaunch" -> <<"Err", "Failed to run brew: ", reinstall>>
      [] OTHER -> <<"Err", "Update failed with status: ", reinstall>>

(* C18: for the Homebrew origin brew update is launched first and, however *)
(* it ended, brew upgrade is what the call launches next; the result is    *)
(* decided by upgrade and reinstall alone.  For the Cargo origin one       *)
(* command is launched, cargo install hazelnut, and the result is ok       *)
(* exactly when it exits with zero.                                        *)
C18_RefreshBestEffort ==
    /\ (upd.pm.kind = "Homebrew" /\ upd.log # <<>>)
       => /\ upd.log[1].argv = <<"brew", "update">>
          /\ upd.log[1].out \in CmdOutcomes
          /\ Len(upd.log) = 1 => upd.pc = "brew_upgrade"
          /\ Len(upd.log) >= 2
             => upd.log[2].argv = <<"brew", "upgrade", upd.pm.formula>>
          /\ Updated
             => /\ Len(upd.log) >= 2
                /\ upd.result =
                      RefBrewResult(upd.log[2].out,
                                    IF Len(upd.log) = 3 THEN upd.log[3].out
                                    ELSE "none")
    /\ (upd.pm.kind = "Cargo" /\ upd.pc # "idle")
       => /\ Len(upd.log) <= 1
          /\ Updated
             => /\ Len(upd.log) = 1
                /\ upd.log[1].argv = <<"cargo", "install", "hazelnut">>
                /\ upd.result = Ok <=> upd.log[1].out = "exit0"
                /\ upd.result # Ok
                   => (Len(upd.result) = 3 /\ upd.result[1] = "Err")

(* brew update could not be started, brew upgrade ran and succeeded *)
C18_Witness ==
    /\ upd.pm.kind = "Homebrew" /\ Updated /\ Len(upd.log) = 2
    /\ upd.log[1].out = "nolaunch" /\ upd.log[2].out = "exit0" /\ upd.result = Ok

(* the executable lies in a directory named Cellar or homebrew *)
RefUnderBrewTree(exe) ==
    /\ exe # None
    /\ \E i \in 2..(Len(exe) - 1) : exe[i] \in {"Cellar", "homebrew"}

(* the answer is an object whose member "formulae" is an array whose first *)
(* element is an object whose member "full_name" is a string               *)
RefWellFormed(brew) ==
    /\ brew.fate = "exit0"
    /\ brew.body # Unparseable
    /\ brew.body[1] = "obj"
    /\ \E i \in 1..Len(brew.body[2]) :
          /\ brew.body[2][i][1] = "formulae"
          /\ brew.body[2][i][2][1] = "arr"
          /\ brew.body[2][i][2][2] # <<>>
          /\ brew.body[2][i][2][2][1][1] = "obj"
          /\ \E j \in 1..Len(brew.body[2][i][2][2][1][2]) :
                /\ brew.body[2][i][2][2][1][2][j][1] = "full_name"
                /\ brew.body[2][i][2][2][1][2][j][2][1] = "str"

RefFullName(brew) ==
    LET i == CHOOSE i \in 1..Len(brew.body[2]) : brew.body[2][i][1] = "formulae"
        members == brew.body[2][i][2][2][1][2]
        j == CHOOSE j \in 1..Len(members) : members[j][1] = "full_name"
    IN  members[j][2][2]

(* C19: detection answers for every executable path and every outcome of   *)
(* the metadata query: Homebrew when the executable lies under the         *)
(* Homebrew tree, with the name the query reported when it succeeded with  *)
(* a well-formed answer and with hazelnut otherwise; Cargo for every other *)
(* path and for an unobtainable one, and then no query is made.            *)
C19_DetectionTotal ==
    det.done
    => /\ det.result.pm.kind \in {"Cargo", "Homebrew"}
       /\ det.result.pm.kind = "Homebrew" <=> RefUnderBrewTree(det.exe)
       /\ (RefUnderBrewTree(det.exe) /\ RefWellFormed(det.brew))
          => det.result.pm = [kind |-> "Homebrew", formula |-> RefFullName(det.brew)]
       /\ (RefUnderBrewTree(det.exe) /\ ~RefWellFormed(det.brew))
          => det.result.pm = [kind |-> "Homebrew", formula |-> "hazelnut"]
       /\ RefUnderBrewTree(det.exe) => det.result.log = <<BrewInfo>>
       /\ ~RefUnderBrewTree(det.exe)
          => (det.result.pm = Cargo /\ det.result.log = <<>>)

(* the executable is under /opt/homebrew/bin and brew names the tap *)
C19_Witness ==
    /\ det.done /\ det.exe = <<"/", "opt", "homebrew", "bin", "hazelnut">>
    /\ det.result.pm = [kind |-> "Homebrew", formula |-> "ricardodantas/tap/hazelnut"]
    /\ det.result.log = <<BrewInfo>>

----------------------------------------------------------------------------
(* Properties of the update check.                                         *)

(* the body is an object whose member "crate" is an object whose member    *)
(* "max_version" is a string                                               *)
HasVersionString(r) ==
    /\ r.kind = "ok"
    /\ r.body # Unparseable
    /\ r.body[1] = "obj"
    /\ \E i \in 1..Len(r.body[2]) :
          /\ r.body[2][i][1] = "crate"
          /\ r.body[2][i][2][1] = "obj"
          /\ \E j \in 1..Len(r.body[2][i][2][2]) :
                /\ r.body[2][i][2][2][j][1] = "max_version"
                /\ r.body[2][i][2][2][j][2][1] = "str"

(* the string of such a body *)
VersionStringOf(r) ==
    LET i == CHOOSE i \in 1..Len(r.body[2]) : r.body[2][i][1] = "crate"
        members == r.body[2][i][2][2]
        j == CHOOSE j \in 1..Len(members) : members[j][1] = "max_version"
    IN  members[j][2][2]

(* C8: a completed check always yields one of the three values; a          *)
(* transport error, an error status, an unparseable body or a body without *)
(* the nested version string yields CheckFailed; UpdateAvailable with the  *)
(* two versions is yielded exactly when a version string was obtained and  *)
(* is newer than the running version, UpToDate exactly when one was        *)
(* obtained and is not newer.                                              *)
C8_FailuresBecomeCheckFailed ==
    chk.pc = "done"
    => /\ chk.result.kind \in {"CheckFailed", "UpdateAvailable", "UpToDate"}
       /\ chk.result.kind = "CheckFailed" <=> ~HasVersionString(chk.response)
       /\ chk.result.kind = "UpdateAvailable"
          <=> /\ HasVersionString(chk.response)
              /\ version_is_newer(VersionStringOf(chk.response), chk.current)
       /\ chk.result.kind = "UpdateAvailable"
          => /\ chk.result.latest = VersionStringOf(chk.response)
             /\ chk.result.current = chk.current
       /\ chk.result.kind = "UpToDate"
          <=> /\ HasVersionString(chk.response)
              /\ ~version_is_newer(VersionStringOf(chk.response), chk.current)

(* a well-formed answer whose "max_version" is not a string *)
C8_Witness ==
    /\ chk.pc = "done" /\ chk.response = Response("ok", CrateBody(JNum(3)))
    /\ chk.result.kind = "CheckFailed"

----------------------------------------------------------------------------
(* Properties of the version comparison.                                   *)

(* the string up to its first "-" *)
RefBase(v) ==
    LET dashes == {i \in 1..Len(v) : v[i] = "-"}
    IN  IF dashes = {} THEN v ELSE SubSeq(v, 1, Min(dashes) - 1)

(* the k-th piece between dots: the characters with k - 1 dots before them *)
RefPiece(base, k) ==
    LET at == {i \in 1..Len(base) :
                 /\ base[i] # "."
                 /\ Cardinality({j \in 1..(i - 1) : base[j] = "."}) = k - 1}
    IN  IF at = {} THEN <<>> ELSE SubSeq(base, Min(at), Max(at))

RefPieceCount(base) == Cardinality({i \in 1..Len(base) : base[i] = "."}) + 1

(* numeric: an optional "+" and then decimal digits, at least one *)
RefDigits(piece) ==
    IF piece # <<>> /\ piece[1] = "+" THEN Tail(piece) ELSE piece

RefNumeric(piece) ==
    /\ RefDigits(piece) # <<>>
    /\ \A i \in 1..Len(RefDigits(piece)) : IsDigit(RefDigits(piece)[i])

(* the number a numeric piece denotes, of any size: its digits without     *)
(* leading zeros                                                           *)
RECURSIVE StripZeros(_)
StripZeros(ds) ==
    IF ds # <<>> /\ ds[1] = "0" THEN StripZeros(Tail(ds)) ELSE ds

RefValue(piece) ==
    LET ds == StripZeros(RefDigits(piece))
    IN  [i \in 1..Len(ds) |-> DigitVal(ds[i])]

RefGt(a, b) ==
    \/ Len(a) > Len(b)
    \/ /\ Len(a) = Len(b)
       /\ \E i \in 1..Len(a) : a[i] > b[i] /\ \A j \in 1..(i - 1) : a[j] = b[j]

(* the component at position pos (0, 1, 2): the value of the numeric piece *)
(* with pos numeric pieces before it, 0 if there is none                   *)
RefComponent(v, pos) ==
    LET base == RefBase(v)
        ks == {k \in 1..RefPieceCount(base) :
                 /\ RefNumeric(RefPiece(base, k))
                 /\ Cardinality({h \in 1..(k - 1) : RefNumeric(RefPiece(base, h))}) = pos}
    IN  IF ks = {} THEN <<>>
        ELSE RefValue(RefPiece(base, CHOOSE k \in ks : TRUE))

(* the first position where the two differ decides *)
RefNewer(latest, current) ==
    \E pos \in 0..2 :
        /\ RefGt(RefComponent(latest, pos), RefComponent(current, pos))
        /\ \A before \in 0..(pos - 1) :
              RefComponent(latest, before) = RefComponent(current, before)

(* every numeric piece of the string fits 32 unsigned bits *)
FitsU32(v) ==
    \A k \in 1..RefPieceCount(RefBase(v)) :
        RefNumeric(RefPiece(RefBase(v), k)) => parse_u32(RefPiece(RefBase(v), k)) # <<>>

V123 == <<"1", ".", "2", ".", "3">>

V120 == <<"1", ".", "2", ".", "0">>

V200 == <<"2", ".", "0", ".", "0">>

V199 == <<"1", ".", "9", ".", "9">>

V120beta == <<"1", ".", "2", ".", "0", "-", "b", "e", "t", "a">>

V100 == <<"1", ".", "0", ".", "0">>

V101 == <<"1", ".", "0", ".", "1">>

V10 == <<"1", ".", "0">>

Compared(l, c) == ver.done /\ ver.latest = l /\ ver.current = c

(* C10: version_is_newer agrees with the reference comparison on every     *)
(* pair of strings, and gives the documented answers.                      *)
C10_NewerIsReference ==
    ver.done
    => /\ ver.newer = RefNewer(ver.latest, ver.current)
       /\ Compared(V123, V120) => ver.newer
       /\ Compared(V200, V199) => ver.newer
       /\ Compared(V120beta, V120) => ~ver.newer
       /\ Compared(V100, V101) => ~ver.newer
       /\ Compared(V10, V100) => ~ver.newer

(* What holds of the code: the same when every numeric component of both   *)
(* strings fits 32 unsigned bits.                                          *)
NewerIsReferenceWithinU32 ==
    (ver.done /\ FitsU32(ver.latest) /\ FitsU32(ver.current))
    => /\ ver.newer = RefNewer(ver.latest, ver.current)
       /\ Compared(V123, V120) => ver.newer
       /\ Compared(V200, V199) => ver.newer
       /\ Compared(V120beta, V120) => ~ver.newer
       /\ Compared(V100, V101) => ~ver.newer
       /\ Compared(V10, V100) => ~ver.newer

----------------------------------------------------------------------------
(* Properties of the uptime formatting.                                    *)

(* the number a string of decimal digits denotes *)
RECURSIVE RefNumber(_)
RefNumber(ds) ==
    IF ds = <<>> THEN Zero64
    ELSE MulSmallAdd(RefNumber(SubSeq(ds, 1, Len(ds) - 1)), 10, DigitVal(ds[Len(ds)]))

(* decimal digits, at least one, no leading zero on a number of two digits *)
RefCanonical(ds) ==
    /\ ds # <<>>
    /\ \A i \in 1..Len(ds) : IsDigit(ds[i])
    /\ Len(ds) > 1 => ds[1] # "0"

(* the fields of a text: what stands between the blanks *)
RefFields(text) == Split(text, " ")

RefUnit(field) == IF field = <<>> THEN "" ELSE field[Len(field)]

RefDigitsOf(field) == SubSeq(field, 1, Len(field) - 1)

(* the value of the field with the unit, zero if the text has none *)
RefUnitValue(text, unit) ==
    LET fields == RefFields(text)
        at == {i \in 1..Len(fields) : RefUnit(fields[i]) = unit}
    IN  IF at = {} THEN Zero64
        ELSE RefNumber(RefDigitsOf(fields[CHOOSE i \in at : TRUE]))

RefUnits(text) == [i \in 1..Len(RefFields(text)) |-> RefUnit(RefFields(text)[i])]

(* C11: the text of format_uptime(n) reads back as hours, minutes below 60 *)
(* and seconds below 60 that add up to n; it shows hours, minutes and      *)
(* seconds when there is an hour, minutes and seconds when there is none   *)
(* but a minute, and seconds alone otherwise; 3661, 65 and 5 give          *)
(* "1h 1m 1s", "1m 5s" and "5s".                                           *)
C11_FormatUptime ==
    fmt.done
    => LET h == RefUnitValue(fmt.text, "h")
           m == RefUnitValue(fmt.text, "m")
           sec == RefUnitValue(fmt.text, "s")
       IN  /\ \A i \in 1..Len(RefFields(fmt.text)) :
                 RefCanonical(RefDigitsOf(RefFields(fmt.text)[i]))
           /\ IsSmall64(m) /\ m[4] < 60
           /\ IsSmall64(sec) /\ sec[4] < 60
           /\ MulSmallAdd(h, 3600, m[4] * 60 + sec[4]) = fmt.secs
           /\ RefUnits(fmt.text) =
                 (IF h # Zero64 THEN <<"h", "m", "s">>
                  ELSE IF m # Zero64 THEN <<"m", "s">> ELSE <<"s">>)
           /\ fmt.secs = U64(3661)
              => fmt.text = <<"1", "h", " ", "1", "m", " ", "1", "s">>
           /\ fmt.secs = U64(65) => fmt.text = <<"1", "m", " ", "5", "s">>
           /\ fmt.secs = U64(5) => fmt.text = <<"5", "s">>

(* an hour and more, formatted with all three fields *)
C11_Witness ==
    /\ fmt.done /\ fmt.secs = U64(36125)
    /\ fmt.text = <<"1", "0", "h", " ", "2", "m", " ", "5", "s">>

----------------------------------------------------------------------------
(* Properties of the uptime query.                                         *)

(* the seconds a text of format_uptime stands for *)
RefSeconds(text) ==
    MulSmallAdd(RefUnitValue(text, "h"), 3600,
                RefUnitValue(text, "m")[4] * 60 + RefUnitValue(text, "s")[4])

(* the start time in ticks and the uptime in whole seconds the call read *)
StartTicksRead == parse_u64(split_whitespace(upt.stat)[22])[1]

UptimeRead == parse_f64_as_u64(split_whitespace(upt.uptime)[1])[1]

(* running = uptime - start / ticks, rounded down, for a frequency > 0 *)
RefRunning(running, uptime, start, ticks) ==
    /\ ticks > 0
    /\ ~Lt64(uptime, running)
    /\ ~Lt64(start, MulSmallAdd(Sub64(uptime, running), ticks, 0))
    /\ Lt64(start, MulSmallAdd(Sub64(uptime, running), ticks, ticks))

(* C12: a read_process_uptime call returns unavailable or the text of the  *)
(* running time, the uptime of the system minus the start time in seconds; *)
(* it never panics and never returns another duration, whatever the files  *)
(* hold and whatever the clock-tick frequency is.                          *)
C12_UptimeNeverBogus ==
    upt.done
    => /\ upt.result.kind \in {"None", "Some"}
       /\ upt.result.kind = "Some"
          => RefRunning(RefSeconds(upt.result.text), UptimeRead, StartTicksRead,
                        upt.sysconf)

(* What holds of the code: the same when the frequency is positive and the *)
(* start time in seconds is not above the uptime.                          *)
UptimeRightWithinRange ==
    (/\ upt.done
     /\ upt.sysconf > 0
     /\ upt.result.kind = "Some" \/ upt.result.kind = "panic"
     /\ ~Lt64(UptimeRead, DivSmall(StartTicksRead, upt.sysconf).q))
    => /\ upt.result.kind = "Some"
       /\ RefRunning(RefSeconds(upt.result.text), UptimeRead, StartTicksRead,
                     upt.sysconf)

----------------------------------------------------------------------------
(* Properties of the liveness probe.                                       *)

(* a process with this id is in the table; it has not exited *)
Alive(table, pid) == pid \in Pids /\ table[pid].state = "running"

(* C14: a process_is_running(pid) call returns false when no process has   *)
(* the id pid at that time, and false when the process with that id has    *)
(* exited; a result of true means that the process exists and belongs to   *)
(* the caller's user.  The answer is computed from the process table at    *)
(* the time of the call.                                                   *)
C14_DeadNeverAlive ==
    [][ proc'.last.op = "process_is_running" /\ proc'.last # proc.last
        => /\ ~InTable(proc.table, proc'.last.pid) => proc'.last.ret = FALSE
           /\ ~Alive(proc.table, proc'.last.pid) => proc'.last.ret = FALSE
           /\ proc'.last.ret = TRUE
              => /\ Alive(proc.table, proc'.last.pid)
                 /\ proc.table[proc'.last.pid].mine ]_vars

(* What holds of the code: for a pid above 0 the answer is true exactly    *)
(* when the process table holds a process of the caller's user under that  *)
(* id, running or not yet reaped, at the time of the call.                 *)
PositivePidProbedFromTable ==
    [][ (proc'.last.op = "process_is_running" /\ proc'.last # proc.last
         /\ proc'.last.pid > 0)
        => proc'.last.ret =
              (InTable(proc.table, proc'.last.pid)
               /\ proc.table[proc'.last.pid].mine) ]_vars

----------------------------------------------------------------------------
(* Properties of calls that run at the same time.                          *)

(* an enable() has made the parent directory and not yet created the       *)
(* descriptor; the is_enabled() of the other caller has answered false     *)
DescriptorPending ==
    \E c \in Callers, d \in Callers :
        /\ calls[c].op = "enable"
        /\ calls[c].pc \in {"e_locate", "e_probe", "e_create"}
        /\ Parent(calls[c].path) \in dirs \ calls[c].dirs0
        /\ fs[calls[c].path] = NoFile
        /\ calls[d].op = "is_enabled" /\ calls[d].pc = "done"
        /\ calls[d].path = calls[c].path /\ calls[d].ret = Value(FALSE)

(* an enable() has created the descriptor and written nothing yet; the     *)
(* is_enabled() of the other caller, made when there was no descriptor,    *)
(* has answered true                                                       *)
EmptyDescriptorSeen ==
    \E c \in Callers, d \in Callers :
        /\ calls[c].op = "enable" /\ calls[c].pc = "e_write"
        /\ calls[c].written = 0 /\ fs[calls[c].path] = <<>>
        /\ calls[d].op = "is_enabled" /\ calls[d].pc = "done"
        /\ calls[d].path = calls[c].path /\ calls[d].fs0[calls[d].path] = NoFile
        /\ calls[d].ret = Value(TRUE)


(* both calls have returned, they looked up the same descriptor, which     *)
(* existed when the first of them looked, and the host failed no removal   *)
(* of an existing file                                                     *)
RacedOnDescriptor(c, d) ==
    /\ c # d
    /\ calls[c].op = "disable" /\ calls[d].op = "disable"
    /\ calls[c].pc = "done" /\ calls[d].pc = "done"
    /\ calls[c].path # None /\ calls[c].path = calls[d].path
    /\ calls[c].existed \/ calls[d].existed
    /\ calls[c].fault # "remove_file" /\ calls[d].fault # "remove_file"

(* C21: when two disable() calls run concurrently on the same existing     *)
(* descriptor, under any interleaving of their existence check and file    *)
(* removal, both calls return ok and the descriptor is absent afterwards;  *)
(* neither call reports an error because the other one removed the file    *)
(* first.                                                                  *)
C21_ConcurrentDisableOk ==
    \A c \in Callers, d \in Callers :
        RacedOnDescriptor(c, d)
        => /\ calls[c].res = Ok /\ calls[d].res = Ok
           /\ ~path_exists(fs, calls[c].path)

(* What holds of the code: after the two calls the descriptor is absent    *)
(* and at least one call returned ok; a call returns an error only when    *)
(* its existence check saw the descriptor and its remove_file found it     *)
(* gone (NotFound).                                                        *)
RaceLosesOnlyToNotFound ==
    \A c \in Callers, d \in Callers :
        RacedOnDescriptor(c, d)
        => /\ ~path_exists(fs, calls[c].path)
           /\ calls[c].res = Ok \/ calls[d].res = Ok
           /\ \A e \in {c, d} :
                 calls[e].res # Ok
                 => /\ calls[e].res = IoError
                    /\ calls[e].fault = "not_found"
                    /\ calls[e].saw

(* a call whose existence check ran after the other call's removal         *)
(* returns ok: the error needs both checks to come before either removal   *)
LateCheckReturnsOk ==
    \A c \in Callers :
        (calls[c].op = "disable" /\ calls[c].pc = "done"
         /\ calls[c].path # None /\ ~calls[c].saw)
        => calls[c].res = Ok

(* the race happened: one call removed the descriptor and returned ok, the *)
(* other saw it and failed on the removal                                  *)
RaceLost ==
    \E c \in Callers, d \in Callers :
        /\ RacedOnDescriptor(c, d)
        /\ calls[c].res = Ok /\ calls[c].saw
        /\ calls[d].res = IoError /\ calls[d].fault = "not_found"

====
